---- MODULE Spec2Model ----
(***************************************************************************)
(* Model of the webhook subscription manager of AutomaticPaymentLinking:   *)
(* WebhookService.toggle_webhook, the Enable/Disable operations, the       *)
(* MoySkladClient calls they make (with their tenacity retries), the       *)
(* WebhookRepository upsert, and the /auto-link-toggle endpoint that       *)
(* classifies the outcome.  The remote registry (MoySklad) is part of the  *)
(* state; its replies to each HTTP call are inputs of the actions.         *)
(***************************************************************************)
EXTENDS Integers, Sequences, FiniteSets, TLC

\* ------------------------------------------------------------------ bounds
\* number of webhook ids the remote registry can ever hand out
MaxWebhooks == 2

\* ------------------------------------------------------- program constants
\* tenacity stop_after_attempt(3) on list/create/update
Attempts == 3

WEBHOOK_ACTION == "CREATE"

PaymentType == {"incoming_payment", "incoming_order", "outgoing_payment", "outgoing_order"}

PAYMENT_TYPE_TO_ENTITY_TYPE ==
    [pt \in PaymentType |->
        CASE pt = "incoming_payment" -> "paymentin"
          [] pt = "incoming_order"   -> "cashin"
          [] pt = "outgoing_payment" -> "paymentout"
          [] pt = "outgoing_order"   -> "cashout"]

DocumentType == {"customerorder", "invoiceout", "demand"}
LinkType == {"sum_and_counterparty", "counterparty", "payment_purpose_mask"}

\* ------------------------------------------------------------ input domains
\* payment categories the modelled callers toggle
PaymentTypesIn == {"incoming_payment", "incoming_order"}
\* the settings the modelled callers send in the request body; they differ from
\* the defaults an entity built from webhook data carries.  document_priority
\* is a body field the payload schemas do not declare
LinkSettingsIn ==
    { [document_type |-> "invoiceout", link_type |-> "counterparty",
       document_priority |-> "newest_first"] }
\* the settings the modelled callers send to /update-link-settings
UpdateSettingsIn ==
    { [document_type |-> "demand", link_type |-> "payment_purpose_mask"] }
\* the local failure of a settings update: the flush, the commit, or none
DbFaults == {"none", "flush", "commit"}
\* the callback URL of this deployment, and the URLs webhooks of the account carry
CallbackUrl == "u1"
Urls == {"u1", "u2"}
\* entity types / actions of webhooks other clients register on the account
RemoteEntityTypes == {PAYMENT_TYPE_TO_ENTITY_TYPE[pt] : pt \in PaymentTypesIn}
RemoteActions == {WEBHOOK_ACTION}
\* the MoySklad account the credentials belong to (field accountId of its
\* webhooks and of the events it sends), and another account
AccountId == "acc1"
Accounts == {"acc1", "acc2"}

VARIABLES
    ms_webhook_url,   \* settings.ms_webhook_url
    credentials,      \* MySkladAuthService._credentials is not None
    remote,           \* MoySklad webhook registry: id -> webhook or NoWebhook
    nextId,           \* next id the registry hands out
    db,               \* table webhook_subscription, row i has primary key i
    payments,         \* MoySklad incoming payments: id -> payment or NoPayment
    running           \* requests being served: request -> position and locals

vars == <<ms_webhook_url, credentials, remote, nextId, db, payments, running>>

\* ------------------------------------------------------------ null values
NoWebhook == [id |-> 0, entityType |-> "", action |-> "", url |-> "", enabled |-> FALSE,
              accountId |-> ""]
NoEntity  == [id |-> 0, payment_type |-> "", entity_type |-> "", action |-> "", url |-> "",
              ms_webhook_id |-> 0, enabled |-> FALSE, ms_account_id |-> "",
              document_type |-> "", link_type |-> "", document_priority |-> ""]

IsNone(x) == x.id = 0

\* the requests that can be served at the same time, and a request that is
\* not being served: pc is its position, the other fields are its locals
Requesters == {"q1", "q2"}
NoRequest == [pc |-> "idle", enabled |-> FALSE, existing_db_entity |-> NoEntity,
              existing |-> NoWebhook, operation |-> "", webhook_entity |-> NoEntity,
              settings |-> [document_type |-> "", link_type |-> "", document_priority |-> ""],
              operations |-> <<>>, href |-> "", linked_sum |-> 0]
NoneRunning == [q \in Requesters |-> NoRequest]

\* ------------------------------------------------------- faults (inputs)
\* what the remote answers to each POST /entity/webhook attempt
CreateReplies == {"ok", "conflict", "error"}

NoFault == [get |-> FALSE, list |-> 0, create |-> <<"ok", "ok", "ok">>, update |-> 0, db |-> "none"]

\* reply sequences for the three create attempts
CreateReplySeqs ==
    { <<"ok", "ok", "ok">>,
      <<"error", "ok", "ok">>,
      <<"error", "error", "error">>,
      <<"conflict", "conflict", "conflict">>,
      <<"conflict", "ok", "ok">>,
      <<"error", "conflict", "conflict">> }

\* failing attempts of a retried call: one (transient) or all of them
FailCounts == {1, Attempts}

\* one faulty dependency per operation
Faults ==
    {NoFault}
    \cup {[NoFault EXCEPT !.get = TRUE]}
    \cup {[NoFault EXCEPT !.list = n] : n \in FailCounts}
    \cup {[NoFault EXCEPT !.update = n] : n \in FailCounts}
    \cup {[NoFault EXCEPT !.create = s] : s \in CreateReplySeqs}
    \cup {[NoFault EXCEPT !.db = d] : d \in {"upsert", "commit"}}

\* ------------------------------------------------------------ MoySkladClient
\* Bookkeeping of one operation: the registry as the calls leave it and the
\* HTTP requests issued so far (attempts) and applied by the remote (Ok).
NewCtx(r, n) ==
    [remote |-> r, nextId |-> n,
     nGet |-> 0, nList |-> 0, nPost |-> 0, nPut |-> 0,
     nPostOk |-> 0, nPutOk |-> 0, putValue |-> FALSE,
     conflict |-> FALSE, adopted |-> 0, overflow |-> FALSE]

\* rows of GET /entity/webhook: the live webhooks, in id order
Rows(r) == SelectSeq([i \in 1..MaxWebhooks |-> r[i]], LAMBDA w : ~IsNone(w))

\* list_webhooks under @retry: f.list attempts fail before one succeeds
list_webhooks(c, f) ==
    IF f.list >= Attempts
    THEN [raised |-> TRUE,  rows |-> <<>>, c |-> [c EXCEPT !.nList = @ + Attempts]]
    ELSE [raised |-> FALSE, rows |-> Rows(c.remote), c |-> [c EXCEPT !.nList = @ + f.list + 1]]

\* get_webhook_by_id: one GET, no retry; raise_for_status turns the 404 of an
\* id the registry does not hold into MoySkladAPIError
get_webhook_by_id_none_when_missing(c, webhook_id, f) ==
    LET c1 == [c EXCEPT !.nGet = @ + 1]
    IN  IF f.get
        THEN [raised |-> TRUE,  data |-> NoWebhook, c |-> c1]
        ELSE IF webhook_id \notin 1..MaxWebhooks \/ IsNone(c.remote[webhook_id])
        THEN [raised |-> FALSE, data |-> NoWebhook, c |-> c1]
        ELSE [raised |-> FALSE, data |-> c.remote[webhook_id], c |-> c1]

get_webhook_by_id(c, webhook_id, f) ==
    LET c1 == [c EXCEPT !.nGet = @ + 1]
    IN  IF f.get \/ webhook_id \notin 1..MaxWebhooks \/ IsNone(c.remote[webhook_id])
        THEN [raised |-> TRUE,  data |-> NoWebhook, c |-> c1]
        ELSE [raised |-> FALSE, data |-> c.remote[webhook_id], c |-> c1]

FirstMatch(rows, Test(_)) ==
    LET m == SelectSeq(rows, Test)
    IN  IF m = <<>> THEN NoWebhook ELSE Head(m)

\* find_webhook: strict match on entityType, action and url
find_webhook(c, entity_type, action, url, f) ==
    LET l == list_webhooks(c, f)
    IN  IF l.raised
        THEN [raised |-> TRUE, data |-> NoWebhook, c |-> l.c]
        ELSE [raised |-> FALSE,
              data |-> FirstMatch(l.rows, LAMBDA w : w.entityType = entity_type
                                                     /\ w.action = action /\ w.url = url),
              c |-> l.c]

find_webhook_relaxed_enabled_only(c, entity_type, action, f) ==
    LET l == list_webhooks(c, f)
    IN  IF l.raised
        THEN [raised |-> TRUE, data |-> NoWebhook, c |-> l.c]
        ELSE [raised |-> FALSE,
              data |-> FirstMatch(l.rows, LAMBDA w : w.entityType = entity_type
                                                     /\ w.action = action /\ w.enabled),
              c |-> l.c]

\* find_webhook_relaxed: match on entityType and action only
find_webhook_relaxed(c, entity_type, action, f) ==
    LET l == list_webhooks(c, f)
    IN  IF l.raised
        THEN [raised |-> TRUE, data |-> NoWebhook, c |-> l.c]
        ELSE [raised |-> FALSE,
              data |-> FirstMatch(l.rows, LAMBDA w : w.entityType = entity_type
                                                     /\ w.action = action),
              c |-> l.c]

\* one attempt of create_webhook (the body under @retry), then the next one
\* when it raised and attempts are left
RECURSIVE create_attempt(_, _, _, _, _, _)
create_attempt(c, k, entity_type, action, url, f) ==
    LET c1    == [c EXCEPT !.nPost = @ + 1]
        reply == f.create[k]
        retry(cc) == IF k < Attempts
                     THEN create_attempt(cc, k + 1, entity_type, action, url, f)
                     ELSE [raised |-> TRUE, data |-> NoWebhook, c |-> cc]
    IN  CASE reply = "ok" ->
               IF c.nextId > MaxWebhooks
               THEN [raised |-> TRUE, data |-> NoWebhook, c |-> [c1 EXCEPT !.overflow = TRUE]]
               ELSE LET w == [id |-> c.nextId, entityType |-> entity_type, action |-> action,
                              url |-> url, enabled |-> TRUE, accountId |-> AccountId]
                    IN  [raised |-> FALSE, data |-> w,
                         c |-> [c1 EXCEPT !.remote[c.nextId] = w, !.nextId = @ + 1,
                                          !.nPostOk = @ + 1]]
          [] reply = "conflict" ->
               \* HTTP 412: look for an existing webhook, ignoring the url
               LET e  == find_webhook_relaxed([c1 EXCEPT !.conflict = TRUE], entity_type, action, f)
               IN  IF ~e.raised /\ ~IsNone(e.data)
                   THEN [raised |-> FALSE, data |-> e.data,
                         c |-> [e.c EXCEPT !.adopted = e.data.id]]
                   ELSE retry(e.c)
          [] OTHER -> retry(c1)

create_webhook(c, entity_type, action, url, f) ==
    create_attempt(c, 1, entity_type, action, url, f)

\* update_webhook(webhook_data, enabled=...) under @retry: PUT meta.href
update_webhook(c, webhook_data, enabled, f) ==
    IF f.update >= Attempts \/ IsNone(c.remote[webhook_data.id])
    THEN [raised |-> TRUE, data |-> NoWebhook, c |-> [c EXCEPT !.nPut = @ + Attempts]]
    ELSE LET w == [c.remote[webhook_data.id] EXCEPT !.enabled = enabled]
         IN  [raised |-> FALSE, data |-> w,
              c |-> [c EXCEPT !.remote[webhook_data.id] = w,
                              !.nPut = @ + f.update + 1,
                              !.nPutOk = @ + 1, !.putValue = enabled]]

\* ------------------------------------------------ domain objects (entities.py)
\* WebhookConfiguration.from_payment_type
from_payment_type(payment_type, webhook_url) ==
    [payment_type |-> payment_type,
     entity_type  |-> PAYMENT_TYPE_TO_ENTITY_TYPE[payment_type],
     action       |-> WEBHOOK_ACTION,
     url          |-> webhook_url]

webhook_data_to_entity_enabled(webhook_data) ==
    [id |-> 0,
     payment_type  |-> "incoming_payment",
     entity_type   |-> webhook_data.entityType,
     action        |-> webhook_data.action,
     url           |-> webhook_data.url,
     ms_webhook_id |-> webhook_data.id,
     enabled       |-> TRUE,
     ms_account_id |-> webhook_data.accountId,
     document_type |-> "customerorder",
     link_type     |-> "sum_and_counterparty",
     document_priority |-> "oldest_first"]

\* EnableWebhookOperation._webhook_data_to_entity and the same construction
\* inlined in DisableWebhookOperation: enabled is bool(data["enabled"])
webhook_data_to_entity(webhook_data) ==
    [id |-> 0,
     payment_type  |-> "incoming_payment",
     entity_type   |-> webhook_data.entityType,
     action        |-> webhook_data.action,
     url           |-> webhook_data.url,
     ms_webhook_id |-> webhook_data.id,
     enabled       |-> webhook_data.enabled,
     ms_account_id |-> webhook_data.accountId,
     document_type |-> "customerorder",
     link_type     |-> "sum_and_counterparty",
     document_priority |-> "oldest_first"]

\* operation names that start with "skipped_" / "error_" among those the code builds
Operations ==
    {"skipped_no_webhook_url", "skipped_no_credentials",
     "created_and_enabled", "enabled", "already_enabled",
     "disabled", "already_disabled", "not_found_to_disable"}
StartsWithSkipped == {"skipped_no_webhook_url", "skipped_no_credentials"}
StartsWithError == {}

is_skipped_wrong_prefix(result) == result.operation \in {}

\* WebhookOperationResult.is_skipped / is_error
is_skipped(result) == result.operation \in StartsWithSkipped
is_error(result) == result.operation \in StartsWithError \/ ~result.success

OpResult(operation, success, entity, c, found) ==
    [raised |-> "none", operation |-> operation, success |-> success,
     webhook_entity |-> entity, c |-> c, found |-> found]
OpRaise(exc, c, found) ==
    [raised |-> exc, operation |-> "", success |-> FALSE,
     webhook_entity |-> NoEntity, c |-> c, found |-> found]

\* ------------------------------------------- webhook_operations.py (Strategy)
\* WebhookOperation._get_webhook_from_db_reference
get_webhook_from_db_reference(c, existing_db_entity, f) ==
    IF IsNone(existing_db_entity) \/ existing_db_entity.ms_webhook_id = 0
    THEN [raised |-> FALSE, data |-> NoWebhook, c |-> c]
    ELSE get_webhook_by_id(c, existing_db_entity.ms_webhook_id, f)

\* the lookup both operations start with: stored id first, then strict search
lookup(c, config, existing_db_entity, f) ==
    LET ref == get_webhook_from_db_reference(c, existing_db_entity, f)
    IN  IF ref.raised \/ ~IsNone(ref.data)
        THEN ref
        ELSE find_webhook(ref.c, config.entity_type, config.action, config.url, f)

\* EnableWebhookOperation._create_new_webhook
create_new_webhook(c, config, f) ==
    LET cr == create_webhook(c, config.entity_type, config.action, config.url, f)
    IN  IF cr.raised
        THEN OpRaise("MoySkladAPIError", cr.c, NoWebhook)
        ELSE OpResult("created_and_enabled", TRUE, webhook_data_to_entity(cr.data), cr.c, NoWebhook)

\* EnableWebhookOperation._enable_existing_webhook
enable_existing_webhook(c, existing, f) ==
    LET up == update_webhook(c, existing, TRUE, f)
    IN  IF up.raised
        THEN OpRaise("MoySkladAPIError", up.c, existing)
        ELSE OpResult("enabled", TRUE, webhook_data_to_entity(up.data), up.c, existing)

EnableWebhookOperation_always_update(c, config, existing_db_entity, f) ==
    LET lk == lookup(c, config, existing_db_entity, f)
    IN  IF lk.raised THEN OpRaise("MoySkladAPIError", lk.c, NoWebhook)
        ELSE IF IsNone(lk.data) THEN create_new_webhook(lk.c, config, f)
        ELSE enable_existing_webhook(lk.c, lk.data, f)

\* EnableWebhookOperation.execute
EnableWebhookOperation(c, config, existing_db_entity, f) ==
    LET lk == lookup(c, config, existing_db_entity, f)
    IN  IF lk.raised THEN OpRaise("MoySkladAPIError", lk.c, NoWebhook)
        ELSE IF IsNone(lk.data) THEN create_new_webhook(lk.c, config, f)
        ELSE IF lk.data.enabled = TRUE
             THEN OpResult("already_enabled", TRUE, webhook_data_to_entity(lk.data), lk.c, lk.data)
        ELSE enable_existing_webhook(lk.c, lk.data, f)

disable_existing_webhook_wrong_flag(c, existing, f) ==
    LET up == update_webhook(c, existing, TRUE, f)
    IN  IF up.raised
        THEN OpRaise("MoySkladAPIError", up.c, existing)
        ELSE OpResult("disabled", TRUE, webhook_data_to_entity(up.data), up.c, existing)

\* DisableWebhookOperation._disable_existing_webhook
disable_existing_webhook(c, existing, f) ==
    LET up == update_webhook(c, existing, FALSE, f)
    IN  IF up.raised
        THEN OpRaise("MoySkladAPIError", up.c, existing)
        ELSE OpResult("disabled", TRUE, webhook_data_to_entity(up.data), up.c, existing)

DisableWebhookOperation_not_found_fails(c, config, existing_db_entity, f) ==
    LET lk == lookup(c, config, existing_db_entity, f)
    IN  IF lk.raised THEN OpRaise("MoySkladAPIError", lk.c, NoWebhook)
        ELSE IF IsNone(lk.data)
             THEN OpResult("not_found_to_disable", FALSE, NoEntity, lk.c, NoWebhook)
        ELSE IF lk.data.enabled = FALSE
             THEN OpResult("already_disabled", TRUE, webhook_data_to_entity(lk.data), lk.c, lk.data)
        ELSE disable_existing_webhook(lk.c, lk.data, f)

\* DisableWebhookOperation.execute
DisableWebhookOperation(c, config, existing_db_entity, f) ==
    LET lk == lookup(c, config, existing_db_entity, f)
    IN  IF lk.raised THEN OpRaise("MoySkladAPIError", lk.c, NoWebhook)
        ELSE IF IsNone(lk.data)
             THEN OpResult("not_found_to_disable", TRUE, NoEntity, lk.c, NoWebhook)
        ELSE IF lk.data.enabled = FALSE
             THEN OpResult("already_disabled", TRUE, webhook_data_to_entity(lk.data), lk.c, lk.data)
        ELSE disable_existing_webhook(lk.c, lk.data, f)

\* WebhookOperationFactory.create_operation, executed
create_operation(enabled, c, config, existing_db_entity, f) ==
    IF enabled
    THEN EnableWebhookOperation(c, config, existing_db_entity, f)
    ELSE DisableWebhookOperation(c, config, existing_db_entity, f)

\* ------------------------------------------------------- WebhookRepository
\* get_by_payment_type: ORDER BY id DESC, first()
get_by_payment_type(rows, payment_type) ==
    LET ids == {i \in 1..Len(rows) : rows[i].payment_type = payment_type}
    IN  IF ids = {} THEN NoEntity
        ELSE rows[CHOOSE i \in ids : \A j \in ids : j <= i]

\* get_by_ms_webhook_id: scalar_one_or_none on the unique column
get_by_ms_webhook_id(rows, ms_webhook_id) ==
    LET ids == {i \in 1..Len(rows) : rows[i].ms_webhook_id = ms_webhook_id}
    IN  IF ids = {} THEN NoEntity ELSE rows[CHOOSE i \in ids : TRUE]

\* add: INSERT, the primary key is the next autoincrement value
add(rows, entity) ==
    LET model == [entity EXCEPT !.id = Len(rows) + 1]
    IN  [raised |-> "none", rows |-> Append(rows, model), entity |-> model]

\* update: SELECT by ms_webhook_id, overwrite the mutable columns
update(rows, entity) ==
    LET ids == {i \in 1..Len(rows) : rows[i].ms_webhook_id = entity.ms_webhook_id}
    IN  IF ids = {}
        THEN [raised |-> "RepositoryError", rows |-> rows, entity |-> NoEntity]
        ELSE LET i == CHOOSE i \in ids : TRUE
                 model == [rows[i] EXCEPT !.payment_type  = entity.payment_type,
                                          !.entity_type   = entity.entity_type,
                                          !.action        = entity.action,
                                          !.url           = entity.url,
                                          !.enabled       = entity.enabled,
                                          !.ms_account_id = entity.ms_account_id,
                                          !.document_type = entity.document_type,
                                          !.link_type     = entity.link_type]
             IN  [raised |-> "none", rows |-> [rows EXCEPT ![i] = model], entity |-> model]

upsert_always_adds(rows, entity) == add(rows, entity)

\* upsert
upsert(rows, entity) ==
    LET existing == get_by_ms_webhook_id(rows, entity.ms_webhook_id)
    IN  IF ~IsNone(existing)
        THEN update(rows, [entity EXCEPT !.id = existing.id])
        ELSE add(rows, entity)

update_link_settings_any_category(rows, payment_type, document_type, link_type) ==
    LET ids == {i \in 1..Len(rows) : rows[i].enabled}
    IN  IF ids = {}
        THEN [found |-> FALSE, rows |-> rows, entity |-> NoEntity]
        ELSE LET i == CHOOSE i \in ids : \A j \in ids : j <= i
                 model == [rows[i] EXCEPT !.document_type = document_type,
                                          !.link_type     = link_type]
             IN  [found |-> TRUE, rows |-> [rows EXCEPT ![i] = model], entity |-> model]

update_link_settings_disabled_too(rows, payment_type, document_type, link_type) ==
    LET ids == {i \in 1..Len(rows) : rows[i].payment_type = payment_type}
    IN  IF ids = {}
        THEN [found |-> FALSE, rows |-> rows, entity |-> NoEntity]
        ELSE LET i == CHOOSE i \in ids : \A j \in ids : j <= i
                 model == [rows[i] EXCEPT !.document_type = document_type,
                                          !.link_type     = link_type]
             IN  [found |-> TRUE, rows |-> [rows EXCEPT ![i] = model], entity |-> model]

update_link_settings_adds_when_missing(rows, payment_type, document_type, link_type) ==
    LET ids == {i \in 1..Len(rows) : rows[i].payment_type = payment_type /\ rows[i].enabled}
    IN  IF ids = {}
        THEN LET model == [NoEntity EXCEPT !.id = Len(rows) + 1,
                                           !.payment_type = payment_type,
                                           !.document_type = document_type,
                                           !.link_type = link_type]
             IN  [found |-> TRUE, rows |-> Append(rows, model), entity |-> model]
        ELSE LET i == CHOOSE i \in ids : \A j \in ids : j <= i
                 model == [rows[i] EXCEPT !.document_type = document_type,
                                          !.link_type     = link_type]
             IN  [found |-> TRUE, rows |-> [rows EXCEPT ![i] = model], entity |-> model]

\* WebhookRepository.update_link_settings: the enabled row of the category with
\* the highest id (ORDER BY id DESC, first()), its two settings overwritten
update_link_settings(rows, payment_type, document_type, link_type) ==
    LET ids == {i \in 1..Len(rows) : rows[i].payment_type = payment_type /\ rows[i].enabled}
    IN  IF ids = {}
        THEN [found |-> FALSE, rows |-> rows, entity |-> NoEntity]
        ELSE LET i == CHOOSE i \in ids : \A j \in ids : j <= i
                 model == [rows[i] EXCEPT !.document_type = document_type,
                                          !.link_type     = link_type]
             IN  [found |-> TRUE, rows |-> [rows EXCEPT ![i] = model], entity |-> model]

\* ------------------------------------------------------------ WebhookService
\* WebhookService.update_link_settings and its endpoint: the body returned, or
\* the exception of a failing flush / commit (nothing is committed then).  c is
\* the bookkeeping of the remote calls of the operation: it makes none
service_update_link_settings(r, n, rows, payment_type, settings, dbf) ==
    LET updated == update_link_settings(rows, payment_type,
                                        settings.document_type, settings.link_type)
        c == NewCtx(r, n)
    IN  IF ~updated.found
        THEN [raised |-> "none", status |-> "warning", db |-> rows, c |-> c,
              io |-> [reads |-> 1, writes |-> 0, commits |-> 0]]
        ELSE IF dbf # "none"
        THEN [raised |-> "Exception", status |-> "error", db |-> rows, c |-> c,
              io |-> [reads |-> 1, writes |-> 1, commits |-> 0]]
        ELSE [raised |-> "none", status |-> "ok", db |-> updated.rows, c |-> c,
              io |-> [reads |-> 1, writes |-> 1, commits |-> 1]]

SvcResult(raised, operation, success, entity, db_record_id, rows, c, io, found) ==
    [raised |-> raised, operation |-> operation, success |-> success,
     webhook_entity |-> entity, db_record_id |-> db_record_id,
     db |-> rows, c |-> c, io |-> io, found |-> found]

NoIo == [reads |-> 0, writes |-> 0, commits |-> 0]

\* the persistence half of toggle_webhook (lines 165-210): flush, then commit;
\* f.db makes the flush or the commit raise, and nothing is committed then.
\* io counts the repository calls of the service: reads (get_by_payment_type),
\* writes (upsert / update) and commits
persist(rows, result, payment_type, enabled, settings, f) ==
    IF result.webhook_entity # NoEntity
    THEN LET entity == [result.webhook_entity EXCEPT !.payment_type  = payment_type,
                                                     !.document_type = settings.document_type,
                                                     !.link_type     = settings.link_type]
             saved  == upsert(rows, entity)
         IN  IF f.db = "upsert" \/ saved.raised # "none"
             THEN SvcResult("RepositoryError", result.operation, result.success, entity, 0,
                            rows, result.c, [reads |-> 1, writes |-> 1, commits |-> 0], result.found)
             ELSE IF f.db = "commit"
             THEN SvcResult("Exception", result.operation, result.success, entity, 0,
                            rows, result.c, [reads |-> 1, writes |-> 1, commits |-> 0], result.found)
             ELSE SvcResult("none", result.operation, result.success, saved.entity, saved.entity.id,
                            saved.rows, result.c, [reads |-> 1, writes |-> 1, commits |-> 1], result.found)
    ELSE LET existing_db_entity == get_by_payment_type(rows, payment_type)
         IN  IF ~IsNone(existing_db_entity)
             THEN LET entity == [existing_db_entity EXCEPT !.enabled       = enabled,
                                                           !.document_type = settings.document_type,
                                                           !.link_type     = settings.link_type]
                      saved  == update(rows, entity)
                  IN  IF f.db = "upsert" \/ saved.raised # "none"
                      THEN SvcResult("RepositoryError", result.operation, result.success, NoEntity, 0,
                                     rows, result.c, [reads |-> 2, writes |-> 1, commits |-> 0], result.found)
                      ELSE IF f.db = "commit"
                      THEN SvcResult("Exception", result.operation, result.success, NoEntity, 0,
                                     rows, result.c, [reads |-> 2, writes |-> 1, commits |-> 0], result.found)
                      ELSE SvcResult("none", result.operation, result.success, NoEntity, saved.entity.id,
                                     saved.rows, result.c, [reads |-> 2, writes |-> 1, commits |-> 1], result.found)
             ELSE SvcResult("none", result.operation, result.success, NoEntity, 0,
                            rows, result.c, [reads |-> 2, writes |-> 0, commits |-> 0], result.found)

toggle_configured_swallows_db_failure(url, r, n, rows, payment_type, enabled, settings, f) ==
    LET config == from_payment_type(payment_type, url)
        existing_db_entity == get_by_payment_type(rows, payment_type)
        result == create_operation(enabled, NewCtx(r, n), config, existing_db_entity, f)
        saved  == persist(rows, result, payment_type, enabled, settings, f)
    IN  IF result.raised # "none"
        THEN SvcResult(result.raised, "", FALSE, NoEntity, 0, rows, result.c,
                       [reads |-> 1, writes |-> 0, commits |-> 0], result.found)
        ELSE IF result.success
        THEN [saved EXCEPT !.raised = "none"]
        ELSE SvcResult("none", result.operation, result.success, result.webhook_entity, 0,
                       rows, result.c, [reads |-> 1, writes |-> 0, commits |-> 0], result.found)

\* WebhookService.toggle_webhook once url and credentials are known to be set
\* (lines 142-212)
toggle_configured(url, r, n, rows, payment_type, enabled, settings, f) ==
    LET config == from_payment_type(payment_type, url)
        existing_db_entity == get_by_payment_type(rows, payment_type)
        result == create_operation(enabled, NewCtx(r, n), config, existing_db_entity, f)
    IN  IF result.raised # "none"
        THEN SvcResult(result.raised, "", FALSE, NoEntity, 0, rows, result.c,
                       [reads |-> 1, writes |-> 0, commits |-> 0], result.found)
        ELSE IF result.success
        THEN persist(rows, result, payment_type, enabled, settings, f)
        ELSE SvcResult("none", result.operation, result.success, result.webhook_entity, 0,
                       rows, result.c, [reads |-> 1, writes |-> 0, commits |-> 0], result.found)

skipped(operation, r, n, rows) ==
    SvcResult("none", operation, FALSE, NoEntity, 0, rows, NewCtx(r, n), NoIo, NoWebhook)

toggle_webhook_unchecked(url, creds, r, n, rows, payment_type, enabled, settings, f) ==
    IF url = ""
    THEN skipped("skipped_no_webhook_url", r, n, rows)
    ELSE toggle_configured(url, r, n, rows, payment_type, enabled, settings, f)

\* WebhookService.toggle_webhook
toggle_webhook(url, creds, r, n, rows, payment_type, enabled, settings, f) ==
    IF url = ""
    THEN skipped("skipped_no_webhook_url", r, n, rows)
    ELSE IF ~creds
    THEN skipped("skipped_no_credentials", r, n, rows)
    ELSE toggle_configured(url, r, n, rows, payment_type, enabled, settings, f)

\* --------------------------------------------- api.py and exception_handlers.py
\* status code of the registered handler for an exception escaping the endpoint
exception_status_code(raised) ==
    CASE raised = "MoySkladAPIError" -> 502
      [] raised = "RepositoryError"  -> 500
      [] OTHER                       -> 500

\* POST /auto-link-toggle: the body's "status", or "error" for a handler's 5xx
auto_link_toggle(result) ==
    IF result.raised # "none"
    THEN [status |-> "error", http |-> exception_status_code(result.raised)]
    ELSE IF is_skipped(result)
    THEN [status |-> "warning", http |-> 200]
    ELSE [status |-> "ok", http |-> 200]

\* =========================================================================
\* Delivery of MoySklad webhooks: POST /api/hooks/moysklad/webhook
\*
\* Amounts are integers in units of 0.01. Calls bind to the callee defined in
\* the sources: an argument the callee does not declare (prioritize_oldest,
\* date_from, limit, order passed to the customer order client) has no effect.
\* =========================================================================

\* ----------------------------------------------- remote accounting data
NoPayment == [id |-> "", sum |-> 0, agent_id |-> "", payment_purpose |-> <<>>,
              operations |-> <<>>]
PaymentIds == {"p1", "p3"}

\* a payment purpose is a sequence of whitespace-separated tokens: a word, a
\* word that ends with one of the keywords "заказ", "order", "№" (a keyword
\* glued to digits is the keyword token followed by the number token), or a
\* run of digits
Word(text)    == [kind |-> "word", text |-> text, len |-> 0]
Keyword(text) == [kind |-> "keyword", text |-> text, len |-> 0]
Number(text, len) == [kind |-> "number", text |-> text, len |-> len]

\* the payments of the account when the service starts; p3 does not exist
InitialPayments ==
    [i \in PaymentIds |->
        CASE i = "p1" -> [id |-> "p1", sum |-> 7, agent_id |-> "a1",
                          payment_purpose |-> <<Word("oplata"), Word("po"), Word("zakazu"),
                                                Number("12345", 5)>>,
                          operations |-> <<>>]
          [] OTHER -> NoPayment]

\* the documents of the account; payed is the amount paid by payments other
\* than the ones above
Documents ==
    { [id |-> "o1", kind |-> "customerorder", name |-> "12345", moment |-> 1,
       sum |-> 4, payed |-> 0, agent_id |-> "a1"],
      [id |-> "o2", kind |-> "customerorder", name |-> "77", moment |-> 2,
       sum |-> 7, payed |-> 0, agent_id |-> "a1"],
      [id |-> "o3", kind |-> "customerorder", name |-> "12345", moment |-> 3,
       sum |-> 7, payed |-> 0, agent_id |-> "a2"],
      [id |-> "i1", kind |-> "invoiceout", name |-> "5", moment |-> 4,
       sum |-> 3, payed |-> 0, agent_id |-> "a1"],
      [id |-> "i2", kind |-> "invoiceout", name |-> "6", moment |-> 5,
       sum |-> 7, payed |-> 2, agent_id |-> "a1"],
      [id |-> "d1", kind |-> "demand", name |-> "8", moment |-> 6,
       sum |-> 4, payed |-> 0, agent_id |-> "a1"],
      [id |-> "o4", kind |-> "customerorder", name |-> "90001", moment |-> 7,
       sum |-> 8, payed |-> 0, agent_id |-> "a1"] }

\* tolerance of search_by_agent_and_sum (0.01)
Tolerance == 1

RECURSIVE SumLinked(_, _)
SumLinked(operations, href) ==
    IF operations = <<>> THEN 0
    ELSE (IF Head(operations).href = href THEN Head(operations).linkedSum ELSE 0)
         + SumLinked(Tail(operations), href)

RECURSIVE SumOver(_, _, _)
SumOver(pays, ids, href) ==
    IF ids = {} THEN 0
    ELSE LET i == CHOOSE i \in ids : TRUE
         IN  SumLinked(pays[i].operations, href) + SumOver(pays, ids \ {i}, href)

\* payedSum of a document as MoySklad reports it: what payments link to it
payedSum(pays, d) == d.payed + SumOver(pays, PaymentIds, d.id)

\* one row of GET /entity/<kind>
document_data(pays, d) ==
    [id |-> d.id, name |-> d.name, moment |-> d.moment, sum |-> d.sum,
     payedSum |-> payedSum(pays, d), agent_id |-> d.agent_id, href |-> d.id]

\* rows in the order "moment,asc" / "moment,desc"
RECURSIVE OrderByMoment(_, _)
OrderByMoment(rows, asc) ==
    IF rows = {} THEN <<>>
    ELSE LET r == CHOOSE r \in rows :
                      \A o \in rows : IF asc THEN r.moment <= o.moment ELSE r.moment >= o.moment
         IN  <<r>> \o OrderByMoment(rows \ {r}, asc)

\* ---------------------------------------------------- faults (inputs)
\* the remote call number "at" of a delivery is answered with 404 or with
\* another error n times in a row ("not_found", "error"), or a search answers
\* rows without meta.href ("no_href")
NoDeliveryFault == [at |-> 0, kind |-> "none", n |-> 0]
MaxCalls == 6
DeliveryFaults ==
    {NoDeliveryFault}
    \cup [at : 1..MaxCalls, kind : {"error"}, n : {Attempts}]
    \cup [at : {1, 3, 5}, kind : {"not_found"}, n : {Attempts}]
    \cup [at : {1}, kind : {"error"}, n : {1}]
    \cup [at : {2}, kind : {"no_href"}, n : {1}]

\* the processing of one delivery: remote payments, the event being handled
\* and the remote requests made so far
DeliveryCtx(pays) ==
    [payments |-> pays, event |-> 0, calls |-> 0,
     nGet |-> 0, nSearch |-> 0, nPut |-> 0, links |-> <<>>]

Hit(c, f) == f.at = c.calls + 1 /\ f.kind \in {"not_found", "error"}
\* tenacity: stop_after_attempt(3), any exception is retried, reraise
Persists(c, f) == Hit(c, f) /\ f.n >= Attempts
Tries(c, f) == IF Hit(c, f) THEN (IF f.n >= Attempts THEN Attempts ELSE f.n + 1) ELSE 1

\* ------------------------------------------------------ PaymentInClient
get_by_href(c, href, f) ==
    LET absent == c.payments[href] = NoPayment
        c1 == [c EXCEPT !.calls = @ + 1,
                        !.nGet = @ + (IF absent THEN Attempts ELSE Tries(c, f))]
    IN  IF Persists(c, f) /\ f.kind = "error"
        THEN [raised |-> "PaymentInAPIError", data |-> NoPayment, c |-> c1]
        ELSE IF absent \/ Persists(c, f)
        THEN [raised |-> "PaymentInNotFoundError", data |-> NoPayment, c |-> c1]
        ELSE [raised |-> "none", data |-> c.payments[href], c |-> c1]

update_operations(c, payment_id, operations, f) ==
    LET absent == c.payments[payment_id] = NoPayment
        c1 == [c EXCEPT !.calls = @ + 1,
                        !.nPut = @ + (IF absent THEN Attempts ELSE Tries(c, f))]
    IN  IF Persists(c, f) /\ f.kind = "error"
        THEN [raised |-> "PaymentInAPIError", data |-> NoPayment, c |-> c1]
        ELSE IF absent \/ Persists(c, f)
        THEN [raised |-> "PaymentInNotFoundError", data |-> NoPayment, c |-> c1]
        ELSE LET data == [c.payments[payment_id] EXCEPT !.operations = operations]
                 new  == operations[Len(operations)]
             IN  [raised |-> "none", data |-> data,
                  c |-> [c1 EXCEPT !.payments[payment_id] = data,
                                   !.links = Append(@, [event |-> c.event,
                                                        payment_id |-> payment_id,
                                                        href |-> new.href,
                                                        linkedSum |-> new.linkedSum])]]

\* ----------------------------------------------------- PaymentInService
\* _to_entity: linked_ops, and the operations link_to_document rebuilds from
\* them: the reference and the amount of every link the payment was read with
linked_operations(operations) ==
    [i \in DOMAIN operations |->
        [href |-> operations[i].href, linkedSum |-> operations[i].linkedSum]]

put_operations_only_new(g, payment_id, document_meta_href, linked_sum, f) ==
    IF g.raised # "none"
    THEN [raised |-> g.raised, data |-> NoPayment, c |-> g.c]
    ELSE update_operations(g.c, payment_id,
                           <<[href |-> document_meta_href, linkedSum |-> linked_sum]>>,
                           f)

\* the PUT of link_to_document, after the payment was read again
put_operations(g, payment_id, document_meta_href, linked_sum, f) ==
    IF g.raised # "none"
    THEN [raised |-> g.raised, data |-> NoPayment, c |-> g.c]
    ELSE update_operations(g.c, payment_id,
                           Append(linked_operations(g.data.operations),
                                  [href |-> document_meta_href, linkedSum |-> linked_sum]),
                           f)

link_to_document(c, payment_id, document_meta_href, linked_sum, f) ==
    put_operations(get_by_href(c, payment_id, f), payment_id, document_meta_href,
                   linked_sum, f)

\* ------------------------------------------- document clients (search)
APIError(kind) ==
    CASE kind = "customerorder" -> "CustomerOrderAPIError"
      [] kind = "invoiceout"    -> "InvoiceOutAPIError"
      [] OTHER                  -> "DemandAPIError"

\* GET /entity/<kind>?filter=...&order=...: any HTTP error becomes the API error
search(c, kind, rows, f) ==
    LET c1 == [c EXCEPT !.calls = @ + 1, !.nSearch = @ + Tries(c, f)]
    IN  IF Persists(c, f)
        THEN [raised |-> APIError(kind), data |-> <<>>, c |-> c1]
        ELSE [raised |-> "none",
              data |-> IF f.at = c.calls + 1 /\ f.kind = "no_href"
                       THEN [i \in DOMAIN rows |-> [rows[i] EXCEPT !.href = ""]]
                       ELSE rows,
              c |-> c1]

Within(x, lo, hi) == lo <= x /\ x <= hi

search_by_agent_and_sum_oldest_first(c, kind, agent_id, sum_value, f) ==
    LET sum_min == sum_value - Tolerance
        sum_max == sum_value + Tolerance
        rows == { document_data(c.payments, d) :
                    d \in { d \in Documents : /\ d.kind = kind
                                              /\ d.agent_id = agent_id
                                              /\ Within(d.sum, sum_min, sum_max) } }
    IN  search(c, kind, OrderByMoment(rows, TRUE), f)

\* filter agent; sum>=min; sum<=max, order moment,desc
search_by_agent_and_sum(c, kind, agent_id, sum_value, f) ==
    LET sum_min == sum_value - Tolerance
        sum_max == sum_value + Tolerance
        rows == { document_data(c.payments, d) :
                    d \in { d \in Documents : /\ d.kind = kind
                                              /\ d.agent_id = agent_id
                                              /\ Within(d.sum, sum_min, sum_max) } }
    IN  search(c, kind, OrderByMoment(rows, FALSE), f)

\* filter agent; payedSum<sum, order moment,asc
search_by_agent(c, kind, agent_id, only_unpaid, f) ==
    LET all  == { document_data(c.payments, d) :
                    d \in { d \in Documents : d.kind = kind /\ d.agent_id = agent_id } }
        rows == { r \in all : only_unpaid => r.payedSum < r.sum }
    IN  search(c, kind, OrderByMoment(rows, TRUE), f)

search_by_name_any_agent(c, kind, agent_id, name, f) ==
    LET rows == { document_data(c.payments, d) :
                    d \in { d \in Documents : d.kind = kind /\ d.name = name } }
        found == OrderByMoment(rows, TRUE)
    IN  search(c, kind, IF found = <<>> THEN <<>> ELSE <<found[1]>>, f)

\* filter agent; name, limit 1
search_by_name(c, kind, agent_id, name, f) ==
    LET rows == { document_data(c.payments, d) :
                    d \in { d \in Documents : /\ d.kind = kind
                                              /\ d.agent_id = agent_id
                                              /\ d.name = name } }
        found == OrderByMoment(rows, TRUE)
    IN  search(c, kind, IF found = <<>> THEN <<>> ELSE <<found[1]>>, f)

\* ----------------------------------------------------- document entities
is_fully_paid(e) == e.payedSum >= e.sum
get_unpaid_amount_total(e) == e.sum

get_unpaid_amount(e) == IF e.sum - e.payedSum > 0 THEN e.sum - e.payedSum ELSE 0
NoDocument == [id |-> "", name |-> "", moment |-> 0, sum |-> 0, payedSum |-> 0,
               agent_id |-> "", href |-> ""]

\* _to_entity on a row without meta.href
to_entity_error(kind) ==
    CASE kind = "customerorder" -> "KeyError"
      [] kind = "invoiceout"    -> "InvoiceOutNotFoundError"
      [] OTHER                  -> "DemandNotFoundError"

\* entities = [_to_entity(data) for data in rows]; not e.is_fully_paid()
to_entities(kind, s) ==
    LET NotPaid(e) == ~is_fully_paid(e)
    IN  IF s.raised # "none"
        THEN [raised |-> s.raised, entities |-> <<>>, c |-> s.c]
        ELSE IF \E i \in DOMAIN s.data : s.data[i].href = ""
        THEN [raised |-> to_entity_error(kind), entities |-> <<>>, c |-> s.c]
        ELSE [raised |-> "none", entities |-> SelectSeq(s.data, NotPaid), c |-> s.c]

\* CustomerOrderService / InvoiceOutService / DemandService .find_for_payment
find_for_payment(c, kind, agent_id, payment_sum, search_by_sum, f) ==
    to_entities(kind, IF search_by_sum
                      THEN search_by_agent_and_sum(c, kind, agent_id, payment_sum, f)
                      ELSE search_by_agent(c, kind, agent_id, TRUE, f))

\* the order of find_by_name_and_agent from the rows of its search
named_entity(s) ==
    IF s.raised # "none"
    THEN [raised |-> s.raised, entity |-> NoDocument, c |-> s.c]
    ELSE IF s.data = <<>>
    THEN [raised |-> "CustomerOrderNotFoundError", entity |-> NoDocument, c |-> s.c]
    ELSE IF s.data[1].href = ""
    THEN [raised |-> "KeyError", entity |-> NoDocument, c |-> s.c]
    ELSE [raised |-> "none", entity |-> s.data[1], c |-> s.c]

find_by_name_and_agent(c, name, agent_id, f) ==
    named_entity(search_by_name(c, "customerorder", agent_id, name, f))

\* ------------------------------------------------------- WebhookHandler
DocResult(raised, document, c) == [raised |-> raised, document |-> document, c |-> c]
First(entities) == IF entities = <<>> THEN NoDocument ELSE entities[1]
NoneDoc(document) == document.id = ""

extract_order_number_bare_first(payment_purpose) ==
    LET n  == Len(payment_purpose)
        P1 == { i \in 1..n : /\ i < n
                             /\ payment_purpose[i].kind = "keyword"
                             /\ payment_purpose[i + 1].kind = "number" }
        P2 == { i \in 1..n : /\ payment_purpose[i].kind = "number"
                             /\ payment_purpose[i].len >= 5 }
        Least(S) == CHOOSE i \in S : \A j \in S : i <= j
    IN  IF P2 # {} THEN payment_purpose[Least(P2)].text
        ELSE IF P1 # {} THEN payment_purpose[Least(P1) + 1].text
        ELSE ""

\* re.search over the patterns (?:заказ|order|№)\s*(\d+) and \b(\d{5,})\b, in
\* that order; "" when neither matches
extract_order_number(payment_purpose) ==
    LET n  == Len(payment_purpose)
        P1 == { i \in 1..n : /\ i < n
                             /\ payment_purpose[i].kind = "keyword"
                             /\ payment_purpose[i + 1].kind = "number" }
        P2 == { i \in 1..n : /\ payment_purpose[i].kind = "number"
                             /\ payment_purpose[i].len >= 5 }
        Least(S) == CHOOSE i \in S : \A j \in S : i <= j
    IN  IF P1 # {} THEN payment_purpose[Least(P1) + 1].text
        ELSE IF P2 # {} THEN payment_purpose[Least(P2)].text
        ELSE ""

\* try: find_by_name_and_agent except CustomerOrderNotFoundError: return None
order_or_none(r) ==
    IF r.raised = "CustomerOrderNotFoundError"
    THEN DocResult("none", NoDocument, r.c)
    ELSE DocResult(r.raised, r.entity, r.c)

find_order_by_purpose_mask(c, payment, f) ==
    IF payment.payment_purpose = <<>> \/ extract_order_number(payment.payment_purpose) = ""
    THEN DocResult("none", NoDocument, c)
    ELSE order_or_none(find_by_name_and_agent(c, extract_order_number(payment.payment_purpose),
                                              payment.agent_id, f))

\* orders[0] if orders else None
first_or_none(r) == DocResult(r.raised, First(r.entities), r.c)

\* _find_order_for_payment, _find_invoice_for_payment, _find_demand_for_payment
find_document_for_payment_mask_any_kind(c, payment, document_type, link_type, f) ==
    IF link_type \in {"sum_and_counterparty", "counterparty"}
    THEN first_or_none(find_for_payment(c, document_type, payment.agent_id, payment.sum,
                                        link_type = "sum_and_counterparty", f))
    ELSE find_order_by_purpose_mask(c, payment, f)

find_document_for_payment(c, payment, document_type, link_type, f) ==
    IF link_type \in {"sum_and_counterparty", "counterparty"}
    THEN first_or_none(find_for_payment(c, document_type, payment.agent_id, payment.sum,
                                        link_type = "sum_and_counterparty", f))
    ELSE IF document_type = "customerorder" /\ link_type = "payment_purpose_mask"
    THEN find_order_by_purpose_mask(c, payment, f)
    ELSE DocResult("none", NoDocument, c)

get_documents_by_counterparty(c, payment, document_type, prioritize_oldest, f) ==
    find_for_payment(c, document_type, payment.agent_id, payment.sum, FALSE, f)

Minimum_first(a, b) == a

Minimum(a, b) == IF a <= b THEN a ELSE b

\* what _link_payment_by_counterparty returns: (last_linked_document, total_linked)
Linked(raised, document, linked_sum, c) ==
    [raised |-> raised, document |-> document, linked_sum |-> linked_sum, c |-> c]

\* the loop of _link_payment_by_counterparty from document k on, and its
\* continuation after the link write l of document k
RECURSIVE link_documents(_, _, _, _, _, _, _)
RECURSIVE after_link(_, _, _, _, _, _, _)
link_documents(c, payment, documents, k, remaining_sum, last_linked_document, f) ==
    IF k > Len(documents)
    THEN Linked("none", last_linked_document, payment.sum - remaining_sum, c)
    ELSE IF get_unpaid_amount(documents[k]) <= 0
    THEN link_documents(c, payment, documents, k + 1, remaining_sum, last_linked_document, f)
    ELSE IF Minimum(get_unpaid_amount(documents[k]), remaining_sum) <= 0
    THEN Linked("none", last_linked_document, payment.sum - remaining_sum, c)
    ELSE after_link(link_to_document(c, payment.id, documents[k].href,
                                     Minimum(get_unpaid_amount(documents[k]), remaining_sum), f),
                    payment, documents, k,
                    remaining_sum - Minimum(get_unpaid_amount(documents[k]), remaining_sum),
                    last_linked_document, f)

after_link_goes_on(l, payment, documents, k, remaining_sum, last_linked_document, f) ==
    IF l.raised # "none"
    THEN link_documents(l.c, payment, documents, k + 1, remaining_sum,
                        last_linked_document, f)
    ELSE IF remaining_sum <= 0
    THEN Linked("none", documents[k], payment.sum - remaining_sum, l.c)
    ELSE link_documents(l.c, payment, documents, k + 1, remaining_sum, documents[k], f)

after_link(l, payment, documents, k, remaining_sum, last_linked_document, f) ==
    IF l.raised # "none"
    THEN Linked(l.raised, NoDocument, 0, l.c)
    ELSE IF remaining_sum <= 0
    THEN Linked("none", documents[k], payment.sum - remaining_sum, l.c)
    ELSE link_documents(l.c, payment, documents, k + 1, remaining_sum, documents[k], f)

\* _link_payment_by_counterparty from the documents d of the counterparty
walk_documents(d, payment, f) ==
    IF d.raised # "none"
    THEN Linked(d.raised, NoDocument, 0, d.c)
    ELSE IF d.entities = <<>>
    THEN Linked("none", NoDocument, 0, d.c)
    ELSE link_documents(d.c, payment, d.entities, 1, payment.sum, NoDocument, f)

link_payment_by_counterparty(c, payment, document_type, prioritize_oldest, f) ==
    walk_documents(get_documents_by_counterparty(c, payment, document_type,
                                                 prioritize_oldest, f),
                   payment, f)

\* the outcomes handle_paymentin_create returns
HandlerResult(success, message, c) ==
    [raised |-> "none", success |-> success, message |-> message, c |-> c]

\* the except clauses of handle_paymentin_create
handler_except(raised, c) ==
    IF raised = "PaymentInNotFoundError"
    THEN HandlerResult(FALSE, "payment_not_found", c)
    ELSE IF raised \in {"CustomerOrderNotFoundError", "InvoiceOutNotFoundError",
                        "DemandNotFoundError"}
    THEN HandlerResult(FALSE, "document_not_found", c)
    ELSE [raised |-> raised, success |-> FALSE, message |-> "", c |-> c]

\* linked_sum = payment.sum if document else 0
single_document(d, payment) ==
    Linked(d.raised, d.document, IF NoneDoc(d.document) THEN 0 ELSE payment.sum, d.c)

\* the end of handle_paymentin_create, after its link write l
linked_or_raised(l) ==
    IF l.raised # "none" THEN handler_except(l.raised, l.c)
    ELSE HandlerResult(TRUE, "linked", l.c)

link_matched_outstanding(m, payment, subscription, f) ==
    IF m.raised # "none" THEN handler_except(m.raised, m.c)
    ELSE IF NoneDoc(m.document) \/ m.linked_sum <= 0
    THEN HandlerResult(FALSE, "no_document", m.c)
    ELSE IF subscription.link_type # "counterparty"
    THEN linked_or_raised(link_to_document(m.c, payment.id, m.document.href,
                                           get_unpaid_amount(m.document), f))
    ELSE HandlerResult(TRUE, "linked", m.c)

\* handle_paymentin_create once the document and the amount m are known
link_matched(m, payment, subscription, f) ==
    IF m.raised # "none" THEN handler_except(m.raised, m.c)
    ELSE IF NoneDoc(m.document) \/ m.linked_sum <= 0
    THEN HandlerResult(FALSE, "no_document", m.c)
    ELSE IF subscription.link_type # "counterparty"
    THEN linked_or_raised(link_to_document(m.c, payment.id, m.document.href, payment.sum, f))
    ELSE HandlerResult(TRUE, "linked", m.c)

\* handle_paymentin_create once the payment g was fetched
match_payment(g, subscription, f) ==
    IF g.raised # "none" THEN handler_except(g.raised, g.c)
    ELSE IF subscription.link_type = "counterparty"
    THEN link_matched(link_payment_by_counterparty(
                          g.c, g.data, subscription.document_type,
                          subscription.document_priority = "oldest_first", f),
                      g.data, subscription, f)
    ELSE link_matched(single_document(
                          find_document_for_payment(g.c, g.data, subscription.document_type,
                                                    subscription.link_type, f),
                          g.data),
                      g.data, subscription, f)

handle_paymentin_create(c, event_href, subscription, f) ==
    match_payment(get_by_href(c, event_href, f), subscription, f)

\* ------------------------------------------------ POST /moysklad/webhook
get_active_subscription_disabled_too(rows, account_id, entity_type) ==
    LET ids == { i \in 1..Len(rows) : /\ rows[i].ms_account_id = account_id
                                      /\ rows[i].entity_type = entity_type
                                      /\ rows[i].payment_type = "incoming_payment" }
    IN  IF ids = {} THEN NoEntity
        ELSE rows[CHOOSE i \in ids : \A j \in ids : j <= i]

get_active_subscription_first_created(rows, account_id, entity_type) ==
    LET ids == { i \in 1..Len(rows) : /\ rows[i].ms_account_id = account_id
                                      /\ rows[i].entity_type = entity_type
                                      /\ rows[i].payment_type = "incoming_payment"
                                      /\ rows[i].enabled }
    IN  IF ids = {} THEN NoEntity
        ELSE rows[CHOOSE i \in ids : \A j \in ids : i <= j]

\* select ... where ms_account_id, entity_type, payment_type, enabled
\* order by id desc, first
get_active_subscription(rows, account_id, entity_type) ==
    LET ids == { i \in 1..Len(rows) : /\ rows[i].ms_account_id = account_id
                                      /\ rows[i].entity_type = entity_type
                                      /\ rows[i].payment_type = "incoming_payment"
                                      /\ rows[i].enabled }
    IN  IF ids = {} THEN NoEntity
        ELSE rows[CHOOSE i \in ids : \A j \in ids : j <= i]

\* what the delivery did for one event: the outcome and the remote requests
EventResult(k, outcome, before, after) ==
    [event |-> k, outcome |-> outcome,
     gets     |-> after.nGet - before.nGet,
     searches |-> after.nSearch - before.nSearch,
     puts     |-> after.nPut - before.nPut]

\* the loop over payload.events from event k on, and its continuation after
\* the handler answered h for event k
RECURSIVE process_events(_, _, _, _, _, _)
RECURSIVE after_handle(_, _, _, _, _, _, _)
process_events(rows, events, k, c, results, f) ==
    IF k > Len(events)
    THEN [raised |-> "none", results |-> results, c |-> c]
    ELSE IF events[k].type = "paymentin" /\ events[k].action = "CREATE"
    THEN IF IsNone(get_active_subscription(rows, events[k].accountId, events[k].type))
         THEN process_events(rows, events, k + 1, [c EXCEPT !.event = k],
                             Append(results, EventResult(k, "no_subscription", c, c)), f)
         ELSE after_handle(handle_paymentin_create(
                               [c EXCEPT !.event = k], events[k].href,
                               get_active_subscription(rows, events[k].accountId,
                                                       events[k].type), f),
                           rows, events, k, c, results, f)
    ELSE process_events(rows, events, k + 1, [c EXCEPT !.event = k],
                        Append(results, EventResult(k, "ignored", c, c)), f)

after_handle(h, rows, events, k, c, results, f) ==
    IF h.raised # "none"
    THEN [raised |-> h.raised, results |-> results, c |-> h.c]
    ELSE process_events(rows, events, k + 1, h.c,
                        Append(results, EventResult(k, h.message, c, h.c)), f)

\* the status the registered exception handlers answer with
delivery_exception_status(raised) ==
    CASE raised \in {"PaymentInAPIError", "CustomerOrderAPIError"} -> 502
      [] OTHER -> 500

\* return Response(status_code=204), or the answer to the exception raised
respond(r) ==
    [status |-> IF r.raised = "none" THEN 204 ELSE delivery_exception_status(r.raised),
     raised |-> r.raised, results |-> r.results, c |-> r.c]

receive_moysklad_webhook_without_check(rows, pays, request_id, events, f) ==
    respond(process_events(rows, events, 1, DeliveryCtx(pays), <<>>, f))

receive_moysklad_webhook(rows, pays, request_id, events, f) ==
    IF request_id = ""
    THEN [status |-> 400, raised |-> "HTTPException", results |-> <<>>,
          c |-> DeliveryCtx(pays)]
    ELSE respond(process_events(rows, events, 1, DeliveryCtx(pays), <<>>, f))

\* ------------------------------------------------- deliveries (inputs)
MaxEvents == 2
MaxLinks == 2
RequestIds == {"", "r1"}
Event(type, action, href, accountId) ==
    [type |-> type, action |-> action, href |-> href, accountId |-> accountId]
EventsIn ==
    { Event("paymentin", "CREATE", "p1", AccountId),
      Event("paymentin", "CREATE", "p3", AccountId),
      Event("paymentin", "CREATE", "p1", "acc2"),
      Event("paymentin", "UPDATE", "p1", AccountId) }
Deliveries == UNION { [1..n -> EventsIn] : n \in 1..MaxEvents }
\* the link settings the subscriptions of the delivery model are toggled with
DeliverySettingsIn ==
    { [document_type |-> "customerorder", link_type |-> "sum_and_counterparty"],
      [document_type |-> "customerorder", link_type |-> "counterparty"],
      [document_type |-> "customerorder", link_type |-> "payment_purpose_mask"],
      [document_type |-> "invoiceout", link_type |-> "counterparty"] }

\* ------------------------------------------------------------------ state
Init ==
    /\ ms_webhook_url \in {"", CallbackUrl}
    /\ credentials \in BOOLEAN
    /\ remote = [i \in 1..MaxWebhooks |-> NoWebhook]
    /\ nextId = 1
    /\ db = <<>>
    /\ payments = InitialPayments
    /\ running = NoneRunning

\* the answer of toggle_webhook to a call made in the current state
Call(payment_type, enabled, settings, f) ==
    toggle_webhook(ms_webhook_url, credentials, remote, nextId, db,
                   payment_type, enabled, settings, f)

\* the answer of update_link_settings to a call made in the current state
SettingsCall(payment_type, settings, dbf) ==
    service_update_link_settings(remote, nextId, db, payment_type, settings, dbf)

\* --------------------------------------------------------------- actions
\* POST /api/hooks/auto-link-toggle
Toggle(payment_type, enabled, settings, f) ==
    \E res \in {Call(payment_type, enabled, settings, f)} :
        /\ ~res.c.overflow
        /\ remote' = res.c.remote
        /\ nextId' = res.c.nextId
        /\ db' = res.db
        /\ UNCHANGED <<ms_webhook_url, credentials, payments, running>>

\* POST /api/hooks/update-link-settings
UpdateLinkSettings(payment_type, settings, dbf) ==
    \E res \in {SettingsCall(payment_type, settings, dbf)} :
        /\ db' = res.db
        /\ UNCHANGED <<ms_webhook_url, credentials, remote, nextId, payments, running>>

\* POST /api/auth/ms/credentials (MySkladAuthService.set_credentials)
SetCredentials ==
    /\ ~credentials
    /\ credentials' = TRUE
    /\ UNCHANGED <<ms_webhook_url, remote, nextId, db, payments, running>>

\* remote-side changes: another client of the account registers, switches or
\* deletes a webhook
RemoteCreate(entity_type, action, url, enabled) ==
    /\ nextId <= MaxWebhooks
    /\ remote' = [remote EXCEPT ![nextId] =
                    [id |-> nextId, entityType |-> entity_type, action |-> action,
                     url |-> url, enabled |-> enabled, accountId |-> AccountId]]
    /\ nextId' = nextId + 1
    /\ UNCHANGED <<ms_webhook_url, credentials, db, payments, running>>

RemoteSetEnabled(id, enabled) ==
    /\ ~IsNone(remote[id])
    /\ remote[id].enabled # enabled
    /\ remote' = [remote EXCEPT ![id].enabled = enabled]
    /\ UNCHANGED <<ms_webhook_url, credentials, nextId, db, payments, running>>

RemoteDelete(id) ==
    /\ ~IsNone(remote[id])
    /\ remote' = [remote EXCEPT ![id] = NoWebhook]
    /\ UNCHANGED <<ms_webhook_url, credentials, nextId, db, payments, running>>

Next ==
    \/ \E pt \in PaymentTypesIn, en \in BOOLEAN, st \in LinkSettingsIn, f \in Faults :
          Toggle(pt, en, st, f)
    \/ \E st \in UpdateSettingsIn, dbf \in DbFaults :
          UpdateLinkSettings("incoming_payment", st, dbf)
    \/ SetCredentials
    \/ \E et \in RemoteEntityTypes, a \in RemoteActions, u \in Urls, en \in BOOLEAN :
          RemoteCreate(et, a, u, en)
    \/ \E id \in 1..MaxWebhooks, en \in BOOLEAN : RemoteSetEnabled(id, en)
    \/ \E id \in 1..MaxWebhooks : RemoteDelete(id)

Spec == Init /\ [][Next]_vars

\* the same operations with /update-link-settings called for either payment
\* type: the specification of the claims about the rows of the local store
StoreNext ==
    \/ \E pt \in PaymentTypesIn, en \in BOOLEAN, st \in LinkSettingsIn, f \in Faults :
          Toggle(pt, en, st, f)
    \/ \E pt \in PaymentTypesIn, st \in UpdateSettingsIn, dbf \in DbFaults :
          UpdateLinkSettings(pt, st, dbf)
    \/ SetCredentials
    \/ \E et \in RemoteEntityTypes, a \in RemoteActions, u \in Urls, en \in BOOLEAN :
          RemoteCreate(et, a, u, en)
    \/ \E id \in 1..MaxWebhooks, en \in BOOLEAN : RemoteSetEnabled(id, en)
    \/ \E id \in 1..MaxWebhooks : RemoteDelete(id)

StoreSpec == Init /\ [][StoreNext]_vars

\* the number of link operations the payments carry
RECURSIVE LinkCount(_, _)
LinkCount(pays, ids) ==
    IF ids = {} THEN 0
    ELSE LET i == CHOOSE i \in ids : TRUE
         IN  Len(pays[i].operations) + LinkCount(pays, ids \ {i})

\* the answer of the delivery endpoint to a delivery made in the current state
Delivery(request_id, events, f) ==
    receive_moysklad_webhook(db, payments, request_id, events, f)

\* POST /api/hooks/moysklad/webhook
Deliver(request_id, events, f) ==
    \E res \in {Delivery(request_id, events, f)} :
        /\ LinkCount(res.c.payments, {"p1"}) <= MaxLinks
        /\ payments' = res.c.payments
        /\ UNCHANGED <<ms_webhook_url, credentials, remote, nextId, db, running>>

\* the delivery model: a configured service whose subscription is toggled and
\* re-configured between deliveries
DeliveryInit ==
    /\ ms_webhook_url = CallbackUrl
    /\ credentials = TRUE
    /\ remote = [i \in 1..MaxWebhooks |-> NoWebhook]
    /\ nextId = 1
    /\ db = <<>>
    /\ payments = InitialPayments
    /\ running = NoneRunning

DeliveryNext ==
    \/ \E en \in BOOLEAN, st \in DeliverySettingsIn :
          Toggle("incoming_payment", en, st, NoFault)
    \/ \E st \in UpdateSettingsIn : UpdateLinkSettings("incoming_payment", st, "none")
    \/ \E rid \in RequestIds, events \in Deliveries, f \in DeliveryFaults :
          Deliver(rid, events, f)

DeliverySpec == DeliveryInit /\ [][DeliveryNext]_vars

\* ------------------------------------------------ matching (inputs)
\* the remote data a payment-created event can meet: the amount, the
\* counterparty and the purpose of payment p1, and the links another payment
\* (p3) already holds on the documents of the account
MatchSums == {0, 3, 7, 8}
Agents == {"a1", "a2"}
Purposes ==
    { <<>>,
      <<Word("oplata"), Number("77", 2)>>,
      <<Keyword("order"), Number("77", 2)>>,
      <<Word("oplata"), Number("12345", 5)>>,
      <<Number("12345", 5), Keyword("order"), Number("77", 2)>>,
      <<Keyword("order"), Number("404", 3)>> }
Link(href, linkedSum) == [href |-> href, linkedSum |-> linkedSum]
PriorLinks ==
    { <<>>,
      <<Link("o2", 5), Link("o4", 8)>>,
      <<Link("o2", 2)>>,
      <<Link("o1", 4), Link("o4", 8)>>,
      <<Link("o2", 7), Link("o4", 8), Link("i1", 3)>> }
MatchPayments ==
    { [i \in PaymentIds |->
          IF i = "p1"
          THEN [id |-> "p1", sum |-> s, agent_id |-> a, payment_purpose |-> pp,
                operations |-> <<>>]
          ELSE [id |-> "p3", sum |-> 20, agent_id |-> "a1", payment_purpose |-> <<>>,
                operations |-> ops]] :
        s \in MatchSums, a \in Agents, pp \in Purposes, ops \in PriorLinks }
MatchSettingsIn ==
    [document_type : {"customerorder", "invoiceout"}, link_type : LinkType]
MatchEvent == Event("paymentin", "CREATE", "p1", AccountId)
MatchFaults ==
    { NoDeliveryFault,
      [at |-> 3, kind |-> "error", n |-> 1],
      [at |-> 4, kind |-> "error", n |-> Attempts],
      [at |-> 5, kind |-> "not_found", n |-> Attempts] }

\* the matching model: one subscription toggled between the link policies, and
\* deliveries of the event of payment p1 over the remote data above
MatchInit ==
    /\ ms_webhook_url = CallbackUrl
    /\ credentials = TRUE
    /\ remote = [i \in 1..MaxWebhooks |-> NoWebhook]
    /\ nextId = 1
    /\ db = <<>>
    /\ payments \in MatchPayments
    /\ running = NoneRunning

MatchNext ==
    \/ \E st \in MatchSettingsIn : Toggle("incoming_payment", TRUE, st, NoFault)
    \/ \E f \in MatchFaults : Deliver("r1", <<MatchEvent>>, f)

MatchSpec == MatchInit /\ [][MatchNext]_vars

\* ------------------------------------------------------------- walk inputs
\* The walk model reads every amount in units of 0.005: amounts are floats in
\* the sources, and the walk compares them with 0 only, so its arithmetic is
\* the same in any unit.  0.01 is 2 of these units.
WalkTolerance == 2
WalkSums == 0..12
WalkPriorLinks == { <<>>, <<Link("o1", 3)>>, <<Link("o1", 4), Link("i1", 3)>> }
WalkPayments ==
    { [i \in PaymentIds |->
          IF i = "p1"
          THEN [id |-> "p1", sum |-> s, agent_id |-> "a1", payment_purpose |-> <<>>,
                operations |-> <<>>]
          ELSE [id |-> "p3", sum |-> 20, agent_id |-> "a1", payment_purpose |-> <<>>,
                operations |-> ops]] :
        s \in WalkSums, ops \in WalkPriorLinks }
WalkSettingsIn == [document_type : DocumentType, link_type : {"counterparty"}]

\* the walk model: a subscription under the counterparty policy and deliveries
\* of the event of payment p1
WalkInit ==
    /\ ms_webhook_url = CallbackUrl
    /\ credentials = TRUE
    /\ remote = [i \in 1..MaxWebhooks |-> NoWebhook]
    /\ nextId = 1
    /\ db = <<>>
    /\ payments \in WalkPayments
    /\ running = NoneRunning

WalkNext ==
    \/ \E st \in WalkSettingsIn : Toggle("incoming_payment", TRUE, st, NoFault)
    \/ \E f \in MatchFaults : Deliver("r1", <<MatchEvent>>, f)

WalkSpec == WalkInit /\ [][WalkNext]_vars

\* ------------------------------------------------- toggles served together
\* One request to /auto-link-toggle served in steps, one per awaited call of
\* toggle_webhook: the read of the local record, the lookup of the remote
\* webhook, the remote write, and the upsert with its commit.  Another request
\* can take its steps in between: nothing is locked.
RacePaymentType == "incoming_payment"
\* q1 asks to enable, q2 to disable
Asks == [q1 |-> TRUE, q2 |-> FALSE]

\* existing_db_entity = await self._uow.webhooks.get_by_payment_type(payment_type)
ToggleBegin(q, settings) ==
    /\ running[q].pc = "idle"
    /\ running' = [running EXCEPT ![q] =
                      [NoRequest EXCEPT !.pc = "lookup", !.enabled = Asks[q],
                                        !.settings = settings,
                                        !.existing_db_entity =
                                            get_by_payment_type(db, RacePaymentType)]]
    /\ UNCHANGED <<ms_webhook_url, credentials, remote, nextId, db, payments>>

\* the lookup of operation.execute() and the branch it selects
ToggleLookup(q) ==
    /\ running[q].pc = "lookup"
    /\ LET r  == running[q]
           lk == lookup(NewCtx(remote, nextId),
                        from_payment_type(RacePaymentType, ms_webhook_url),
                        r.existing_db_entity, NoFault)
       IN  running' = [running EXCEPT ![q] =
               IF lk.raised THEN NoRequest
               ELSE IF IsNone(lk.data)
               THEN IF r.enabled
                    THEN [r EXCEPT !.pc = "create"]
                    ELSE [r EXCEPT !.pc = "save", !.operation = "not_found_to_disable"]
               ELSE IF lk.data.enabled = r.enabled
               THEN [r EXCEPT !.pc = "save",
                              !.operation = IF r.enabled THEN "already_enabled"
                                            ELSE "already_disabled",
                              !.webhook_entity = webhook_data_to_entity(lk.data)]
               ELSE [r EXCEPT !.pc = "update", !.existing = lk.data]]
    /\ UNCHANGED <<ms_webhook_url, credentials, remote, nextId, db, payments>>

\* the remote write of operation.execute(): POST, or PUT of the enabled flag
ToggleWrite(q) ==
    /\ running[q].pc \in {"create", "update"}
    /\ LET r   == running[q]
           c   == NewCtx(remote, nextId)
           res == IF r.pc = "create"
                  THEN create_new_webhook(
                           c, from_payment_type(RacePaymentType, ms_webhook_url), NoFault)
                  ELSE IF r.enabled
                  THEN enable_existing_webhook(c, r.existing, NoFault)
                  ELSE disable_existing_webhook(c, r.existing, NoFault)
       IN  /\ ~res.c.overflow
           /\ remote' = res.c.remote
           /\ nextId' = res.c.nextId
           /\ running' = [running EXCEPT ![q] =
                   IF res.raised # "none" THEN NoRequest
                   ELSE [r EXCEPT !.pc = "save", !.operation = res.operation,
                                  !.webhook_entity = res.webhook_entity]]
    /\ UNCHANGED <<ms_webhook_url, credentials, db, payments>>

\* if result.success: upsert (or update of the record read again), commit
ToggleSave(q) ==
    /\ running[q].pc = "save"
    /\ LET r == running[q]
           result == OpResult(r.operation, TRUE, r.webhook_entity,
                              NewCtx(remote, nextId), r.existing)
       IN  db' = persist(db, result, RacePaymentType, r.enabled, r.settings, NoFault).db
    /\ running' = [running EXCEPT ![q] = NoRequest]
    /\ UNCHANGED <<ms_webhook_url, credentials, remote, nextId, payments>>

\* the service configured, nothing registered, no request being served
ToggleRaceInit ==
    /\ ms_webhook_url = CallbackUrl
    /\ credentials = TRUE
    /\ remote = [i \in 1..MaxWebhooks |-> NoWebhook]
    /\ nextId = 1
    /\ db = <<>>
    /\ payments = InitialPayments
    /\ running = NoneRunning

ToggleRaceNext ==
    \/ \E q \in Requesters, st \in LinkSettingsIn : ToggleBegin(q, st)
    \/ \E q \in Requesters : ToggleLookup(q)
    \/ \E q \in Requesters : ToggleWrite(q)
    \/ \E q \in Requesters : ToggleSave(q)

ToggleRaceSpec == ToggleRaceInit /\ [][ToggleRaceNext]_vars

\* --------------------------------------------- link writes served together
\* One link_to_document call served in its two awaited steps, the read of the
\* payment and the PUT of its operations; the call of another delivery can
\* take its steps in between.
RaceLinksIn == { Link("o1", 1), Link("o1", 2), Link("o2", 2) }
RacePayments ==
    { [InitialPayments EXCEPT !["p1"].operations = ops] :
          ops \in { <<>>, <<Link("o4", 1)>>, <<Link("o4", 1), Link("i1", 3)>> } }

\* payment_data = await self._client.get_by_href(...); payment = _to_entity(...)
LinkRead(q, link) ==
    /\ running[q].pc = "idle"
    /\ LET g == get_by_href(DeliveryCtx(payments), "p1", NoDeliveryFault)
       IN  /\ g.raised = "none"
           /\ running' = [running EXCEPT ![q] =
                   [NoRequest EXCEPT !.pc = "put", !.operations = g.data.operations,
                                     !.href = link.href, !.linked_sum = link.linkedSum]]
    /\ UNCHANGED <<ms_webhook_url, credentials, remote, nextId, db, payments>>

\* operations rebuilt from the payment as read, the new link appended, PUT
LinkPut(q) ==
    /\ running[q].pc = "put"
    /\ LET r == running[q]
           g == [raised |-> "none",
                 data   |-> [payments["p1"] EXCEPT !.operations = r.operations],
                 c      |-> DeliveryCtx(payments)]
           u == put_operations(g, "p1", r.href, r.linked_sum, NoDeliveryFault)
       IN  /\ u.raised = "none"
           /\ payments' = u.c.payments
    /\ running' = [running EXCEPT ![q].pc = "linked"]
    /\ UNCHANGED <<ms_webhook_url, credentials, remote, nextId, db>>

LinkRaceInit ==
    /\ ms_webhook_url = CallbackUrl
    /\ credentials = TRUE
    /\ remote = [i \in 1..MaxWebhooks |-> NoWebhook]
    /\ nextId = 1
    /\ db = <<>>
    /\ payments \in RacePayments
    /\ running = NoneRunning

LinkRaceNext ==
    \/ \E q \in Requesters, link \in RaceLinksIn : LinkRead(q, link)
    \/ \E q \in Requesters : LinkPut(q)

LinkRaceSpec == LinkRaceInit /\ [][LinkRaceNext]_vars

TypeOK ==
    /\ ms_webhook_url \in {"", CallbackUrl}
    /\ credentials \in BOOLEAN
    /\ nextId \in 1..(MaxWebhooks + 1)
    /\ Len(db) <= MaxWebhooks

\* ------------------------------------------------------- vocabulary of claims
\* the same service answering a further call right after the call that gave res
Then(res, payment_type, enabled, settings, f) ==
    toggle_webhook(ms_webhook_url, credentials, res.c.remote, res.c.nextId, res.db,
                   payment_type, enabled, settings, f)

Configured == ms_webhook_url # "" /\ credentials

\* the call returned a result (no exception escaped toggle_webhook)
Completed(res) == res.raised = "none" /\ ~res.c.overflow
\* the call reported success
Succeeded(res) == Completed(res) /\ res.success

EnableOperations == {"created_and_enabled", "enabled", "already_enabled"}

\* remote writes of a call: POST and PUT requests
NoRemoteWrite(res) == res.c.nPost = 0 /\ res.c.nPut = 0
NoRemoteCall(res) == NoRemoteWrite(res) /\ res.c.nGet = 0 /\ res.c.nList = 0

\* the stored pointer of a category does not resolve on the remote
StalePointer(payment_type) ==
    LET row == get_by_payment_type(db, payment_type)
    IN  ~IsNone(row) /\ IsNone(remote[row.ms_webhook_id])

\* what the lookup of a category resolves to in the current state: the webhook
\* the stored id points to, else the first webhook matching type, action, url
Resolved(payment_type) ==
    LET row == get_by_payment_type(db, payment_type)
        cfg == from_payment_type(payment_type, ms_webhook_url)
    IN  IF ~IsNone(row)
        THEN remote[row.ms_webhook_id]
        ELSE FirstMatch(Rows(remote), LAMBDA w : w.entityType = cfg.entity_type
                                                 /\ w.action = cfg.action /\ w.url = cfg.url)

\* the first webhook of the category's entity type and action, whatever its url
RelaxedMatch(payment_type) ==
    FirstMatch(Rows(remote), LAMBDA w : w.entityType = PAYMENT_TYPE_TO_ENTITY_TYPE[payment_type]
                                        /\ w.action = WEBHOOK_ACTION)

\* the remote half of the call returned: an operation other than a skip is named
Executed(res) == res.operation \in Operations \ StartsWithSkipped

\* a dependency the call used failed for good: every attempt of a retried
\* request, the single GET by id, or the local flush / commit
Failed(res, payment_type, f) ==
    \/ res.c.nGet > 0 /\ (f.get \/ StalePointer(payment_type))
    \/ res.c.nList > 0 /\ f.list >= Attempts
    \/ res.c.nPut > 0 /\ f.update >= Attempts
    \/ res.c.nPost > 0 /\ res.c.nPostOk = 0 /\ res.c.adopted = 0
    \/ res.io.writes > 0 /\ f.db # "none"

\* ------------------------------------------------------------------ claims

\* C1: when toggle-enable succeeds and is called again with no remote-side
\* change in between, the second call returns already_enabled and issues no
\* remote write (no webhook create, no webhook update).
C1_EnableTwice ==
    \A pt \in PaymentTypesIn, st \in LinkSettingsIn, f \in Faults :
        LET first == Call(pt, TRUE, st, f)
        IN  (Succeeded(first) /\ first.operation \in EnableOperations) =>
                LET second == Then(first, pt, TRUE, st, NoFault)
                IN  /\ Completed(second)
                    /\ second.operation = "already_enabled"
                    /\ NoRemoteWrite(second)

\* C2: after a toggle-enable that reports success, the remote webhook of the
\* category is enabled and the local record saved for it has enabled = TRUE,
\* on every lookup or creation path.
C2_EnabledAfterEnable ==
    \A pt \in PaymentTypesIn, st \in LinkSettingsIn, f \in Faults :
        LET res == Call(pt, TRUE, st, f)
            id  == res.webhook_entity.ms_webhook_id
        IN  (Succeeded(res) /\ res.operation \in EnableOperations) =>
                /\ id \in 1..MaxWebhooks
                /\ res.c.remote[id].entityType = PAYMENT_TYPE_TO_ENTITY_TYPE[pt]
                /\ res.c.remote[id].enabled
                /\ get_by_ms_webhook_id(res.db, id).payment_type = pt
                /\ get_by_ms_webhook_id(res.db, id).enabled

\* C3: with a stored remote id that no longer resolves on the remote, enable
\* and disable still complete: the lookup falls through to the strict search
\* and the operation proceeds from its result (enable creates when nothing is
\* found).
C3_StalePointerSurvived ==
    \A pt \in PaymentTypesIn, en \in BOOLEAN, st \in LinkSettingsIn :
        LET res == Call(pt, en, st, NoFault)
        IN  (Configured /\ StalePointer(pt) /\ ~res.c.overflow) =>
                /\ Completed(res)
                /\ res.c.nList >= 1
                /\ (en /\ res.found.id = 0) => res.operation = "created_and_enabled"

\* C4: when the create is answered conflict/already-exists and a remote
\* webhook of the same entity type and action exists, toggle-enable reports
\* success and the local record is keyed by the adopted webhook's id, also when
\* its url differs from the desired one; the create path fails only when the
\* relaxed lookup finds no webhook.
C4_ConflictAdopts ==
    \A pt \in PaymentTypesIn, st \in LinkSettingsIn, f \in Faults :
        LET res == Call(pt, TRUE, st, f)
            w   == RelaxedMatch(pt)
        IN  ((\E k \in 1..Attempts : f.create[k] = "conflict")
                /\ res.c.conflict /\ ~res.c.overflow) =>
                /\ ~IsNone(w) =>
                     /\ Succeeded(res)
                     /\ res.c.adopted = w.id
                     /\ res.webhook_entity.ms_webhook_id = w.id
                     /\ get_by_ms_webhook_id(res.db, w.id).id = res.db_record_id
                     /\ res.db_record_id # 0
                /\ ~Completed(res) => IsNone(w)

C4_Witness ==
    /\ Configured
    /\ \E i \in 1..Len(db) :
          /\ db[i].url # ms_webhook_url
          /\ ~IsNone(remote[db[i].ms_webhook_id])
          /\ remote[db[i].ms_webhook_id].url = db[i].url

\* C5: a toggle-enable performs exactly one of three remote effects, chosen by
\* the lookup result: a create when no webhook is found, one update setting
\* enabled = TRUE when the found webhook is disabled, no remote write when it
\* is already enabled; never both a create and an update.  (Effects are the
\* writes the remote applied; without a failed attempt the requests issued
\* are as many.)
C5_EnableEffect ==
    \A pt \in PaymentTypesIn, st \in LinkSettingsIn, f \in Faults :
        LET res == Call(pt, TRUE, st, f)
            w   == Resolved(pt)
        IN  (Configured /\ ~res.c.overflow) =>
                /\ ~(res.c.nPost > 0 /\ res.c.nPut > 0)
                /\ res.c.nPostOk + res.c.nPutOk <= 1
                /\ f = NoFault => res.c.nPost + res.c.nPut <= 1
                /\ Executed(res) =>
                     /\ IsNone(w) =>
                          /\ res.operation = "created_and_enabled"
                          /\ res.c.nPost >= 1 /\ res.c.nPut = 0
                          /\ res.c.nPostOk = 1 \/ res.c.adopted # 0
                     /\ (~IsNone(w) /\ ~w.enabled) =>
                          /\ res.operation = "enabled"
                          /\ res.c.nPost = 0
                          /\ res.c.nPutOk = 1 /\ res.c.putValue = TRUE
                          /\ res.c.remote[w.id].enabled
                     /\ (~IsNone(w) /\ w.enabled) =>
                          /\ res.operation = "already_enabled"
                          /\ NoRemoteWrite(res)

C5_Witness ==
    /\ Configured
    /\ \E pt \in PaymentTypesIn, st \in LinkSettingsIn :
          LET res == Call(pt, TRUE, st, NoFault)
          IN  /\ ~IsNone(Resolved(pt)) /\ ~Resolved(pt).enabled
              /\ res.operation = "enabled" /\ res.c.nPut = 1
    /\ \E pt \in PaymentTypesIn, st \in LinkSettingsIn :
          LET res == Call(pt, TRUE, st, NoFault)
          IN  /\ ~IsNone(Resolved(pt)) /\ Resolved(pt).enabled
              /\ res.operation = "already_enabled"

\* C6: a toggle-disable on an existing enabled remote webhook issues exactly
\* one remote update setting enabled = FALSE and persists the local record with
\* enabled = FALSE; on an already disabled webhook it issues no remote write
\* and returns already_disabled.
C6_DisableEffect ==
    \A pt \in PaymentTypesIn, st \in LinkSettingsIn, f \in Faults :
        LET res == Call(pt, FALSE, st, f)
            w   == Resolved(pt)
        IN  (Configured /\ ~IsNone(w) /\ Completed(res)) =>
                IF w.enabled
                THEN /\ res.operation = "disabled"
                     /\ res.c.nPost = 0
                     /\ res.c.nPutOk = 1 /\ res.c.putValue = FALSE
                     /\ f.update = 0 => res.c.nPut = 1
                     /\ ~res.c.remote[w.id].enabled
                     /\ get_by_ms_webhook_id(res.db, w.id).payment_type = pt
                     /\ ~get_by_ms_webhook_id(res.db, w.id).enabled
                     /\ res.io.commits = 1
                ELSE /\ res.operation = "already_disabled"
                     /\ NoRemoteWrite(res)

C6_Witness ==
    /\ Configured
    /\ \E pt \in PaymentTypesIn :
          LET row == get_by_payment_type(db, pt)
          IN  /\ ~IsNone(row) /\ ~row.enabled
              /\ ~IsNone(remote[row.ms_webhook_id]) /\ ~remote[row.ms_webhook_id].enabled
              /\ Call(pt, FALSE, CHOOSE st \in LinkSettingsIn : TRUE, NoFault).operation
                    = "already_disabled"
    /\ \E pt \in PaymentTypesIn :
          /\ ~IsNone(Resolved(pt)) /\ Resolved(pt).enabled
          /\ Call(pt, FALSE, CHOOSE st \in LinkSettingsIn : TRUE, NoFault).operation = "disabled"

\* C7: toggle-disable for a category whose subscription was never created (no
\* local record, no remote webhook) returns not_found_to_disable with
\* success = TRUE, is reported as outcome ok, issues no remote write and
\* writes no local record.
C7_DisableAbsent ==
    \A pt \in PaymentTypesIn, st \in LinkSettingsIn, f \in Faults :
        LET res == Call(pt, FALSE, st, f)
        IN  (Configured /\ IsNone(get_by_payment_type(db, pt)) /\ IsNone(RelaxedMatch(pt))) =>
                /\ Failed(res, pt, f) \/ Completed(res)
                /\ Completed(res) =>
                     /\ res.operation = "not_found_to_disable"
                     /\ res.success
                     /\ auto_link_toggle(res).status = "ok"
                     /\ NoRemoteWrite(res)
                     /\ res.io.writes = 0 /\ res.io.commits = 0
                     /\ res.db = db /\ res.c.remote = remote

C7_Witness ==
    /\ Configured
    /\ db # <<>>
    /\ \E pt \in PaymentTypesIn :
          /\ IsNone(get_by_payment_type(db, pt)) /\ IsNone(RelaxedMatch(pt))
          /\ Call(pt, FALSE, CHOOSE st \in LinkSettingsIn : TRUE, NoFault).operation
                = "not_found_to_disable"

\* C8: a toggle called while the callback URL is not configured returns
\* skipped_no_webhook_url, and while the credentials are not configured a
\* skipped result; in both cases no remote call is made and no local record is
\* read, written or committed.
C8_SkippedTouchesNothing ==
    \A pt \in PaymentTypesIn, en \in BOOLEAN, st \in LinkSettingsIn, f \in Faults :
        LET res == Call(pt, en, st, f)
        IN  /\ ms_webhook_url = "" => res.operation = "skipped_no_webhook_url"
            /\ (ms_webhook_url # "" /\ ~credentials) => res.operation = "skipped_no_credentials"
            /\ ~Configured =>
                 /\ Completed(res) /\ is_skipped(res)
                 /\ NoRemoteCall(res)
                 /\ res.io = NoIo
                 /\ res.db = db /\ res.c.remote = remote /\ res.c.nextId = nextId

C8_Witness ==
    /\ ms_webhook_url # "" /\ ~credentials
    /\ Rows(remote) # <<>>
    /\ \A pt \in PaymentTypesIn, en \in BOOLEAN :
          Call(pt, en, CHOOSE st \in LinkSettingsIn : TRUE, NoFault).operation
             = "skipped_no_credentials"

\* C9: every call of the toggle API yields exactly one of ok, warning, error:
\* ok when the operation was applied (the no-op and nothing-to-disable results
\* included), warning when it was skipped for a missing callback URL or missing
\* credentials, error when a remote call or the local persistence failed; a
\* failure is never reported as ok or as warning.
C9_OutcomeClasses ==
    \A pt \in PaymentTypesIn, en \in BOOLEAN, st \in LinkSettingsIn, f \in Faults :
        LET res  == Call(pt, en, st, f)
            resp == auto_link_toggle(res)
        IN  ~res.c.overflow =>
                /\ resp.status \in {"ok", "warning", "error"}
                /\ resp.status = "warning" <=> ~Configured
                /\ resp.status = "error" <=> (Configured /\ Failed(res, pt, f))
                /\ resp.status = "ok" => Executed(res) /\ ~Failed(res, pt, f)

C9_Witness ==
    /\ Configured
    /\ db # <<>>
    /\ \E pt \in PaymentTypesIn, en \in BOOLEAN, st \in LinkSettingsIn :
          /\ auto_link_toggle(Call(pt, en, st, NoFault)).status = "ok"
          /\ auto_link_toggle(Call(pt, en, st, [NoFault EXCEPT !.db = "commit"])).status = "error"
          /\ Call(pt, en, st, [NoFault EXCEPT !.db = "commit"]).c.remote # remote

\* C10: a result produced for a missing callback URL or missing credentials
\* is skipped and not an error: is_skipped() and is_error() are never both true.
C10_SkippedIsNotError ==
    \A pt \in PaymentTypesIn, en \in BOOLEAN, st \in LinkSettingsIn, f \in Faults :
        LET res == Call(pt, en, st, f)
        IN  Completed(res) => ~(is_skipped(res) /\ is_error(res))

\* C11: when the local upsert or commit fails after the remote create or update
\* of the same toggle succeeded, the toggle is reported as failed (an exception
\* escapes, the outcome is error, never ok), the remote webhook keeps the state
\* the toggle gave it (the registry is as a faultless toggle leaves it and no
\* further remote write was issued), and the local store is as before the toggle.
C11_PersistenceFailure ==
    \A pt \in PaymentTypesIn, en \in BOOLEAN, st \in LinkSettingsIn, d \in {"upsert", "commit"} :
        LET res == Call(pt, en, st, [NoFault EXCEPT !.db = d])
            ok  == Call(pt, en, st, NoFault)
            id  == res.webhook_entity.ms_webhook_id
        IN  (Configured /\ ~res.c.overflow /\ res.c.nPostOk + res.c.nPutOk >= 1) =>
                /\ res.raised # "none"
                /\ auto_link_toggle(res).status = "error"
                /\ res.c.remote = ok.c.remote
                /\ res.c.remote # remote
                /\ id \in 1..MaxWebhooks
                /\ res.c.remote[id].enabled = en
                /\ res.c.nPost + res.c.nPut = 1
                /\ res.db = db
                /\ res.io.commits = 0

C11_Witness ==
    /\ Configured
    /\ db # <<>>
    /\ \E pt \in PaymentTypesIn, en \in BOOLEAN, st \in LinkSettingsIn :
          LET res == Call(pt, en, st, [NoFault EXCEPT !.db = "commit"])
          IN  res.c.nPutOk = 1 /\ res.raised # "none" /\ ~IsNone(get_by_payment_type(db, pt))
    /\ \E pt \in PaymentTypesIn, st \in LinkSettingsIn :
          LET res == Call(pt, TRUE, st, [NoFault EXCEPT !.db = "upsert"])
          IN  res.c.nPostOk = 1 /\ res.raised = "RepositoryError"

\* C12: after every successful enable, the local record keyed by the remote id
\* of the webhook found or created carries the document type, the link policy
\* and the document-selection priority the caller requested, and the upsert
\* was committed within the same toggle.
C12_EnablePersistsSettings ==
    \A pt \in PaymentTypesIn, st \in LinkSettingsIn, f \in Faults :
        LET res == Call(pt, TRUE, st, f)
            row == get_by_ms_webhook_id(res.db, res.webhook_entity.ms_webhook_id)
        IN  (Succeeded(res) /\ res.operation \in EnableOperations) =>
                /\ ~IsNone(row)
                /\ row.id = res.db_record_id
                /\ row.document_type = st.document_type
                /\ row.link_type = st.link_type
                /\ row.document_priority = st.document_priority
                /\ res.io.writes = 1 /\ res.io.commits = 1

\* C13: no two local subscription records have the same remote subscription
\* identifier, and a toggle whose webhook's remote id is already stored updates
\* that record in place instead of adding a second one.
C13_UniqueRemoteId ==
    /\ \A i, j \in 1..Len(db) : i # j => db[i].ms_webhook_id # db[j].ms_webhook_id
    /\ \A pt \in PaymentTypesIn, en \in BOOLEAN, st \in LinkSettingsIn, f \in Faults :
        \A res \in {Call(pt, en, st, f)} :
          LET id  == res.webhook_entity.ms_webhook_id
              old == get_by_ms_webhook_id(db, id)
          IN  (Configured /\ Completed(res) /\ id # 0 /\ ~IsNone(old)) =>
                  /\ Len(res.db) = Len(db)
                  /\ res.db_record_id = old.id
                  /\ res.db[old.id].ms_webhook_id = id
                  /\ \A i \in 1..Len(db) : i # old.id => res.db[i] = db[i]

C13_Witness ==
    /\ Configured
    /\ \E pt \in PaymentTypesIn, en \in BOOLEAN, st \in LinkSettingsIn :
          LET res == Call(pt, en, st, NoFault)
              id  == res.webhook_entity.ms_webhook_id
          IN  /\ Completed(res) /\ id # 0
              /\ ~IsNone(get_by_ms_webhook_id(db, id))
              /\ res.db # db /\ Len(res.db) = Len(db)

\* every record of the table before is still there, under the same primary key
\* and remote id
NothingDeleted(before, after) ==
    /\ Len(after) >= Len(before)
    /\ \A i \in 1..Len(before) :
          after[i].id = before[i].id /\ after[i].ms_webhook_id = before[i].ms_webhook_id

\* C14 (as stated): a local record is created only by a successful enable; a
\* disable or a link-settings update never adds a record, it only updates an
\* existing one in place; no toggle or settings operation deletes a record (a
\* disable leaves the record present with enabled = FALSE).
C14_CreatedOnlyByEnable ==
    /\ \A pt \in PaymentTypesIn, en \in BOOLEAN, st \in LinkSettingsIn, f \in Faults :
          LET res == Call(pt, en, st, f)
          IN  ~res.c.overflow =>
                  /\ NothingDeleted(db, res.db)
                  /\ Len(res.db) > Len(db) =>
                        en /\ Succeeded(res) /\ res.operation \in EnableOperations
    /\ \A pt \in PaymentTypesIn, st \in UpdateSettingsIn, dbf \in DbFaults :
          LET res == SettingsCall(pt, st, dbf)
          IN  NothingDeleted(db, res.db) /\ Len(res.db) = Len(db)

\* C14 (amended): a local record is added only by a successful toggle that
\* resolved a remote webhook whose id was not stored yet: an enable, or a
\* disable of a category without a record whose webhook the strict search
\* found.  A disable whose webhook's id is stored and a link-settings update
\* never add a record; no toggle or settings operation deletes a record, and a
\* successful disable that resolved a webhook leaves its record present with
\* enabled = FALSE.
C14_RecordLifecycle ==
    /\ \A pt \in PaymentTypesIn, en \in BOOLEAN, st \in LinkSettingsIn, f \in Faults :
        \A res \in {Call(pt, en, st, f)} :
          LET id  == res.webhook_entity.ms_webhook_id
          IN  ~res.c.overflow =>
                  /\ NothingDeleted(db, res.db)
                  /\ Len(res.db) <= Len(db) + 1
                  /\ Len(res.db) > Len(db) =>
                        /\ Succeeded(res)
                        /\ id # 0 /\ IsNone(get_by_ms_webhook_id(db, id))
                        /\ res.db[Len(res.db)].ms_webhook_id = id
                        /\ ~en => /\ IsNone(get_by_payment_type(db, pt))
                                  /\ res.found.url = ms_webhook_url
                                  /\ res.found.entityType = PAYMENT_TYPE_TO_ENTITY_TYPE[pt]
                  /\ (~en /\ Succeeded(res) /\ id # 0) =>
                        /\ ~IsNone(get_by_ms_webhook_id(res.db, id))
                        /\ ~get_by_ms_webhook_id(res.db, id).enabled
    /\ \A pt \in PaymentTypesIn, st \in UpdateSettingsIn, dbf \in DbFaults :
          LET res == SettingsCall(pt, st, dbf)
          IN  NothingDeleted(db, res.db) /\ Len(res.db) = Len(db)

C14_Witness ==
    /\ Configured
    /\ \E pt \in PaymentTypesIn, st \in LinkSettingsIn :
          LET res == Call(pt, FALSE, st, NoFault)
          IN  Succeeded(res) /\ Len(res.db) > Len(db)
    /\ \E pt \in PaymentTypesIn, st \in LinkSettingsIn :
          LET res == Call(pt, FALSE, st, NoFault)
          IN  /\ res.operation = "disabled" /\ Len(res.db) = Len(db)
              /\ get_by_payment_type(db, pt).enabled
              /\ ~get_by_payment_type(res.db, pt).enabled
    /\ \E pt \in PaymentTypesIn, st \in UpdateSettingsIn :
          SettingsCall(pt, st, "none").status = "ok"

\* the enabled records of a category, by primary key
EnabledIds(payment_type) ==
    {i \in 1..Len(db) : db[i].payment_type = payment_type /\ db[i].enabled}

\* C15: a link-settings update issues no remote call and changes only the
\* document type and link policy of the enabled record of the category with
\* the highest id: that record's other fields (enabled flag, remote id) and
\* every other record are unchanged.
C15_SettingsFrame ==
    \A pt \in PaymentTypesIn, st \in UpdateSettingsIn, dbf \in DbFaults :
        LET res == SettingsCall(pt, st, dbf)
            ids == EnabledIds(pt)
        IN  /\ NoRemoteCall(res)
            /\ res.c.remote = remote /\ res.c.nextId = nextId
            /\ Len(res.db) = Len(db)
            /\ res.status # "ok" => res.db = db
            /\ (ids # {} /\ dbf = "none") => res.status = "ok"
            /\ res.status = "ok" =>
                  /\ ids # {}
                  /\ LET i == CHOOSE i \in ids : \A j \in ids : j <= i
                     IN  /\ res.db[i] = [db[i] EXCEPT !.document_type = st.document_type,
                                                      !.link_type = st.link_type]
                         /\ res.db[i].enabled = db[i].enabled
                         /\ res.db[i].ms_webhook_id = db[i].ms_webhook_id
                         /\ \A j \in 1..Len(db) : j # i => res.db[j] = db[j]

C15_Witness ==
    /\ Len(db) >= 2
    /\ \E pt \in PaymentTypesIn, st \in UpdateSettingsIn :
          LET res == SettingsCall(pt, st, "none")
          IN  /\ res.status = "ok" /\ res.db # db
              /\ \E j \in 1..Len(db) : db[j].payment_type # pt /\ db[j].enabled

\* C16: a link-settings update for a category that has no enabled local
\* record (none at all, or only disabled ones) returns a warning without
\* raising and leaves the local store unchanged: nothing is written or
\* committed.
C16_SettingsAbsent ==
    \A pt \in PaymentTypesIn, st \in UpdateSettingsIn, dbf \in DbFaults :
        LET res == SettingsCall(pt, st, dbf)
        IN  EnabledIds(pt) = {} =>
                /\ res.raised = "none"
                /\ res.status = "warning"
                /\ res.db = db
                /\ res.io.writes = 0 /\ res.io.commits = 0

C16_Witness ==
    /\ \E pt \in PaymentTypesIn, st \in UpdateSettingsIn :
          /\ ~IsNone(get_by_payment_type(db, pt)) /\ EnabledIds(pt) = {}
          /\ SettingsCall(pt, st, "none").status = "warning"
    /\ \E pt \in PaymentTypesIn, st \in UpdateSettingsIn :
          /\ IsNone(get_by_payment_type(db, pt))
          /\ SettingsCall(pt, st, "none").status = "warning"

\* -------------------------------------------------------------- delivery
\* the delivery issued no remote request and changed no payment
NoRemoteRequest(res) ==
    /\ res.c.nGet = 0 /\ res.c.nSearch = 0 /\ res.c.nPut = 0
    /\ res.c.links = <<>>
    /\ res.c.payments = payments

\* C17: a delivery without a request identifier is rejected with a client-error
\* status before any event is read: no event gets a result, and no remote read,
\* search or link write is issued for it, whatever its events and whatever the
\* remote system would answer.
C17_MissingRequestId ==
    \A events \in Deliveries, f \in DeliveryFaults :
        LET res == Delivery("", events, f)
        IN  /\ res.status \in 400..499
            /\ res.results = <<>>
            /\ res.c.event = 0
            /\ NoRemoteRequest(res)

\* a delivery that links a payment when it carries a request identifier is
\* rejected without it
C17_Witness ==
    \E events \in Deliveries :
        /\ Delivery("r1", events, NoDeliveryFault).c.links # <<>>
        /\ Delivery("", events, NoDeliveryFault).status = 400

\* C18: every delivery that carries a request identifier is answered with the
\* empty no-content success, whatever the outcome of its events (no
\* subscription, no matching document, payment not found, remote failure).
C18_AlwaysNoContent ==
    \A events \in Deliveries, f \in DeliveryFaults :
        Delivery("r1", events, f).status = 204

\* C19: within a delivery that carries a request identifier, the failure of one
\* event, a remote failure that persists after the retries included, does not
\* prevent the following events from being processed: the loop reaches every
\* event after the failed one.
C19_FailureDoesNotAbort ==
    \A events \in Deliveries, f \in DeliveryFaults :
        LET res == Delivery("r1", events, f)
        IN  res.c.event = Len(events)

\* C20: an event whose handling ends in payment-not-found or document-not-found
\* gets a recorded failure result without raising, no link write is made for
\* it, and the loop goes on to the event after it.
C20_NotFoundIsRecorded ==
    \A events \in Deliveries, f \in DeliveryFaults :
        LET res == Delivery("r1", events, f)
        IN  \A i \in DOMAIN res.results :
                res.results[i].outcome \in {"payment_not_found", "document_not_found"} =>
                    /\ \A j \in DOMAIN res.c.links :
                           res.c.links[j].event # res.results[i].event
                    /\ res.results[i].event < Len(events) =>
                           res.c.event > res.results[i].event

\* the account has no enabled incoming-payment subscription in the local store
NoEnabledSubscription(account_id) ==
    ~\E i \in 1..Len(db) : /\ db[i].enabled
                            /\ db[i].ms_account_id = account_id
                            /\ db[i].payment_type = "incoming_payment"

\* a payment-created event of an account without enabled subscription
Unsubscribed(e) ==
    /\ e.type = "paymentin" /\ e.action = "CREATE"
    /\ NoEnabledSubscription(e.accountId)

\* C21: a payment-created event of an account that has no enabled
\* incoming-payment subscription is skipped: its result is "no subscription",
\* no payment fetch, search or link write is issued for it, and a delivery made
\* of such events only is acknowledged with no-content whatever the remote
\* system would answer.
C21_NoSubscriptionSkipped ==
    \A events \in Deliveries, f \in DeliveryFaults :
        LET res == Delivery("r1", events, f)
        IN  /\ \A i \in DOMAIN res.results :
                   Unsubscribed(events[res.results[i].event]) =>
                       /\ res.results[i].outcome = "no_subscription"
                       /\ res.results[i].gets = 0
                       /\ res.results[i].searches = 0
                       /\ res.results[i].puts = 0
            /\ \A j \in DOMAIN res.c.links : ~Unsubscribed(events[res.c.links[j].event])
            /\ (\A k \in DOMAIN events : Unsubscribed(events[k])) =>
                   /\ res.status = 204
                   /\ Len(res.results) = Len(events)
                   /\ NoRemoteRequest(res)

\* the only subscription of the account is disabled, and an event that was
\* linked under it while enabled is now skipped and acknowledged
C21_Witness ==
    /\ db # <<>>
    /\ NoEnabledSubscription(AccountId)
    /\ payments["p1"].operations # <<>>
    /\ LET res == Delivery("r1", <<Event("paymentin", "CREATE", "p1", AccountId)>>,
                            NoDeliveryFault)
       IN  /\ res.status = 204
           /\ res.results[1].outcome = "no_subscription"
           /\ NoRemoteRequest(res)

\* -------------------------------------------------------------- matching
\* the payment of the event the matching model delivers
Payment == payments["p1"]

\* the multi-document walk for the payment over the current remote data
Walk(document_type, f) ==
    link_payment_by_counterparty(DeliveryCtx(payments), Payment, document_type, TRUE, f)

\* the sum of the amounts of a sequence of link writes
RECURSIVE SumLinks(_)
SumLinks(links) ==
    IF links = <<>> THEN 0 ELSE Head(links).linkedSum + SumLinks(Tail(links))

\* C22: when the greedy walk of the counterparty policy ends, for every payment
\* and every candidate list, total_linked <= payment amount, total_linked plus
\* the remaining amount is the payment amount (the remaining amount is never
\* negative), and total_linked is the sum of the amounts of the link writes
\* issued for the payment.
C22_WalkTotals ==
    \A dt \in {"customerorder", "invoiceout"}, f \in MatchFaults :
        LET r == Walk(dt, f)
        IN  r.raised = "none" =>
                /\ r.linked_sum >= 0
                /\ r.linked_sum <= Payment.sum
                /\ r.linked_sum = SumLinks(r.c.links)
                /\ \A j \in DOMAIN r.c.links : r.c.links[j].payment_id = Payment.id
                /\ LinkCount(r.c.payments, {"p1"}) = LinkCount(payments, {"p1"}) + Len(r.c.links)

\* the walk writes two links and ends with a part of the payment left over
C22_Witness ==
    \E dt \in {"customerorder", "invoiceout"} :
        LET r == Walk(dt, NoDeliveryFault)
        IN  /\ r.raised = "none"
            /\ Len(r.c.links) = 2
            /\ 0 < r.linked_sum /\ r.linked_sum < Payment.sum

\* the answer of the delivery endpoint to the event of the payment
Handled(f) == Delivery("r1", <<MatchEvent>>, f)

\* the enabled subscription of the account, NoEntity when it has none
Subscription == get_active_subscription(db, AccountId, "paymentin")

\* the outstanding amount of the document behind href, as the remote system
\* reports it in the current state
Outstanding(href) ==
    LET d == CHOOSE d \in Documents : d.id = href
    IN  get_unpaid_amount(document_data(payments, d))

\* C23: every link write issued by the dispatcher, under any link policy,
\* applies an amount that is positive and no greater than the outstanding
\* amount of the target document (total minus paid, floored at zero) as read
\* when the document was selected.
C23_LinkWithinOutstanding ==
    \A f \in MatchFaults :
        LET res == Handled(f)
        IN  \A j \in DOMAIN res.c.links :
                /\ res.c.links[j].linkedSum > 0
                /\ res.c.links[j].linkedSum <= Outstanding(res.c.links[j].href)

\* the candidate lists a walk can be given: the documents of one kind of the
\* payment's counterparty, settled ones included, in any order
Candidates(kind) ==
    LET all == { document_data(payments, d) :
                   d \in { d \in Documents : d.kind = kind /\ d.agent_id = Payment.agent_id } }
    IN  UNION { { s \in [1..n -> all] : \A i, j \in 1..n : i # j => s[i] # s[j] } :
                n \in 0..Cardinality(all) }

\* the loop of the walk over a candidate list
WalkOver(documents, f) ==
    link_documents(DeliveryCtx(payments), Payment, documents, 1, Payment.sum, NoDocument, f)

\* total minus paid, floored at zero
Due(e) == IF e.sum - e.payedSum > 0 THEN e.sum - e.payedSum ELSE 0

\* the position of the document behind href in a candidate list
Position(documents, href) == CHOOSE i \in DOMAIN documents : documents[i].href = href

\* the account is subscribed under the counterparty policy
CounterpartyPolicy ==
    /\ ~IsNone(Subscription)
    /\ Subscription.link_type = "counterparty"

\* what is left of the payment before the j-th link write
Remaining(links, j) == Payment.sum - SumLinks(SubSeq(links, 1, j - 1))

\* C24: under the counterparty policy the link writes follow the order of the
\* candidate list, one per document: a candidate with nothing outstanding gets
\* no write, each written candidate gets min(its outstanding amount, the
\* remaining amount), every written candidate before the last is filled to
\* its outstanding amount, and no candidate after the one that brings the
\* remaining amount to 0 gets a write; while an amount remains no candidate with
\* an outstanding amount is passed over.
C24_GreedyOrder ==
    CounterpartyPolicy =>
        \A documents \in Candidates(Subscription.document_type) :
            LET r == WalkOver(documents, NoDeliveryFault)
                links == r.c.links
                n == Len(links)
                at == [j \in 1..n |-> Position(documents, links[j].href)]
            IN  /\ r.raised = "none"
                /\ \A j \in 1..n : \E i \in DOMAIN documents : documents[i].href = links[j].href
                /\ \A j \in 1..n :
                       /\ j < n => at[j] < at[j + 1]
                       /\ Due(documents[at[j]]) > 0
                       /\ links[j].linkedSum =
                              Minimum(Due(documents[at[j]]), Remaining(links, j))
                       /\ links[j].linkedSum > 0
                       /\ j < n => links[j].linkedSum = Due(documents[at[j]])
                /\ \A i \in DOMAIN documents :
                       (\A j \in 1..n : at[j] # i) =>
                           \/ Due(documents[i]) = 0
                           \/ /\ Remaining(links, n + 1) = 0
                              /\ n > 0 => at[n] < i
                /\ get_documents_by_counterparty(DeliveryCtx(payments), Payment,
                                                 Subscription.document_type, TRUE,
                                                 NoDeliveryFault).entities
                       \in Candidates(Subscription.document_type)

\* a payment of 7 over candidates with 4 and 5 outstanding, followed by a
\* third one: writes of 4 and 3, nothing remains, the third gets no write; and a
\* list that starts with a settled candidate, which is passed over
C24_Witness ==
    /\ CounterpartyPolicy
    /\ Subscription.document_type = "customerorder"
    /\ Payment.sum = 7
    /\ \E documents \in Candidates("customerorder") :
          LET r == WalkOver(documents, NoDeliveryFault)
          IN  /\ Len(documents) = 3
              /\ Due(documents[1]) = 4 /\ Due(documents[2]) = 5
              /\ Len(r.c.links) = 2
              /\ r.c.links[1].linkedSum = 4 /\ r.c.links[2].linkedSum = 3
              /\ r.linked_sum = 7
    /\ \E documents \in Candidates("customerorder") :
          LET r == WalkOver(documents, NoDeliveryFault)
          IN  /\ Len(documents) = 2
              /\ Due(documents[1]) = 0
              /\ Len(r.c.links) = 1
              /\ r.c.links[1].href = documents[2].href

\* the document the single-document strategy of the subscription resolves for
\* the payment in the current state, NoDocument when it resolves none
Resolved1 ==
    find_document_for_payment(DeliveryCtx(payments), Payment, Subscription.document_type,
                              Subscription.link_type, NoDeliveryFault).document

SinglePolicy ==
    /\ ~IsNone(Subscription)
    /\ Subscription.link_type \in {"sum_and_counterparty", "payment_purpose_mask"}

\* C25: under the sum_and_counterparty or the purpose_mask policy, handling
\* one payment-created event issues exactly one remote link write, for the
\* full payment amount, when the strategy resolves a candidate, and no link
\* write when it resolves none; finding no candidate is an empty result, not
\* an error.
C25_OneWriteOrNone ==
    SinglePolicy =>
        LET res == Handled(NoDeliveryFault)
        IN  /\ res.raised = "none" /\ res.status = 204
            /\ IF NoneDoc(Resolved1)
               THEN /\ res.c.nPut = 0 /\ res.c.links = <<>>
                    /\ res.results[1].outcome = "no_document"
               ELSE /\ res.c.nPut = 1 /\ Len(res.c.links) = 1
                    /\ res.c.links[1].href = Resolved1.href
                    /\ res.c.links[1].linkedSum = Payment.sum
                    /\ res.results[1].outcome = "linked"

\* C25 (amended): the same for a payment of a positive amount; for a payment
\* of amount 0 no link write is issued whether or not a candidate is resolved.
C25_OneWriteOrNonePositive ==
    SinglePolicy =>
        LET res == Handled(NoDeliveryFault)
        IN  /\ res.raised = "none" /\ res.status = 204
            /\ \A f \in MatchFaults : Len(Handled(f).c.links) <= 1
            /\ IF NoneDoc(Resolved1) \/ Payment.sum = 0
               THEN /\ res.c.nPut = 0 /\ res.c.links = <<>>
                    /\ res.results[1].outcome = "no_document"
               ELSE /\ res.c.nPut = 1 /\ Len(res.c.links) = 1
                    /\ res.c.links[1].href = Resolved1.href
                    /\ res.c.links[1].linkedSum = Payment.sum
                    /\ res.results[1].outcome = "linked"

\* a candidate whose total differs from the payment amount is resolved, and
\* the one link write of the event applies the full payment amount to it
C25_Witness ==
    /\ SinglePolicy
    /\ Payment.sum > 0
    /\ ~NoneDoc(Resolved1)
    /\ Resolved1.sum # Payment.sum
    /\ Handled(NoDeliveryFault).c.links =
           <<[event |-> 1, payment_id |-> "p1", href |-> Resolved1.href,
              linkedSum |-> Payment.sum]>>

\* what the sum_and_counterparty strategy returns for the payment
BySum(kind) ==
    find_for_payment(DeliveryCtx(payments), kind, Payment.agent_id, Payment.sum, TRUE,
                     NoDeliveryFault)

\* the documents of a kind that the claim admits for the payment: same
\* counterparty, total within the tolerance, not fully settled
Admitted(kind) ==
    { d \in Documents : /\ d.kind = kind
                         /\ d.agent_id = Payment.agent_id
                         /\ d.sum - Payment.sum <= Tolerance
                         /\ Payment.sum - d.sum <= Tolerance
                         /\ payedSum(payments, d) < d.sum }

AfterKeyword(pp) ==
    { i \in 2..Len(pp) : pp[i].kind = "number" /\ pp[i - 1].kind = "keyword" }
LongRuns(pp) == { i \in 1..Len(pp) : pp[i].kind = "number" /\ pp[i].len >= 5 }

\* the orders that carry a name for a counterparty
Named(name, agent_id) ==
    { d \in Documents : d.kind = "customerorder" /\ d.name = name /\ d.agent_id = agent_id }

\* what the purpose_mask strategy resolves for the payment
ByMask == find_order_by_purpose_mask(DeliveryCtx(payments), Payment, NoDeliveryFault)

\* C27: the purpose_mask strategy tries its patterns in a fixed order and uses
\* the first that matches (keyword followed by digits before a bare run of 5 or
\* more digits); it yields at most one candidate, whose name is the extracted
\* number and whose counterparty is the payment's, whatever the amounts of the
\* documents, and it yields no match, hence no link write, when no pattern
\* matches or no such document exists.
C27_PurposeMask ==
    LET pp == Payment.payment_purpose
        number == extract_order_number(pp)
        m == ByMask
    IN  /\ AfterKeyword(pp) # {} =>
               \E i \in AfterKeyword(pp) : /\ number = pp[i].text
                                            /\ \A j \in AfterKeyword(pp) : i <= j
        /\ (AfterKeyword(pp) = {} /\ LongRuns(pp) # {}) =>
               \E i \in LongRuns(pp) : /\ number = pp[i].text
                                        /\ \A j \in LongRuns(pp) : i <= j
        /\ (AfterKeyword(pp) = {} /\ LongRuns(pp) = {}) => number = ""
        /\ m.raised = "none"
        /\ IF number = "" \/ Named(number, Payment.agent_id) = {}
           THEN NoneDoc(m.document)
           ELSE /\ m.document.name = number
                /\ m.document.agent_id = Payment.agent_id
                /\ \E d \in Named(number, Payment.agent_id) : d.id = m.document.href
        /\ number = "" => m.c.nSearch = 0
        /\ (~IsNone(Subscription) /\ Subscription.link_type = "payment_purpose_mask") =>
               \A f \in MatchFaults :
                   LET links == Handled(f).c.links
                   IN  /\ Len(links) <= 1
                       /\ links # <<>> =>
                              /\ Subscription.document_type = "customerorder"
                              /\ ~NoneDoc(m.document)
                              /\ links[1].href = m.document.href

\* both patterns match with different numbers: the digits after the keyword
\* win, and the order of that name is linked although its total is not the
\* payment amount; an order of the other number exists for the counterparty
C27_Witness ==
    /\ ~IsNone(Subscription)
    /\ Subscription.link_type = "payment_purpose_mask"
    /\ AfterKeyword(Payment.payment_purpose) # {}
    /\ LongRuns(Payment.payment_purpose) # {}
    /\ \E i \in LongRuns(Payment.payment_purpose) :
          /\ Named(Payment.payment_purpose[i].text, Payment.agent_id) # {}
          /\ Payment.payment_purpose[i].text # ByMask.document.name
    /\ ~NoneDoc(ByMask.document)
    /\ ByMask.document.sum # Payment.sum
    /\ LET res == Handled(NoDeliveryFault)
       IN  /\ Len(res.c.links) = 1
           /\ res.c.links[1].href = ByMask.document.href

\* link_to_document on a payment of the current state
ApplyLink(payment_id, href, linked_sum, f) ==
    link_to_document(DeliveryCtx(payments), payment_id, href, linked_sum, f)

\* the links a sequence of link writes adds to a payment
Added(links) == [j \in DOMAIN links |-> Link(links[j].href, links[j].linkedSum)]

\* C28: link_to_document appends exactly one allocation (document reference,
\* amount) to the link list of the payment: every link the payment had before
\* the call is still there, in place and with its amount, after it, also
\* across the successive calls of one multi-document allocation; a call that
\* fails leaves the list as it was, and no other payment is touched.
C28_AppendOnly ==
    /\ \A pid \in PaymentIds, href \in {"o1", "i2"}, f \in MatchFaults :
           LET r == ApplyLink(pid, href, 1, f)
           IN  /\ r.raised = "none" =>
                      /\ r.c.payments[pid].operations =
                             Append(payments[pid].operations, Link(href, 1))
                      /\ r.data.operations = r.c.payments[pid].operations
               /\ r.raised # "none" => r.c.payments = payments
               /\ \A other \in PaymentIds \ {pid} : r.c.payments[other] = payments[other]
    /\ \A dt \in {"customerorder", "invoiceout"}, f \in MatchFaults :
           LET r == Walk(dt, f)
           IN  /\ r.c.payments["p1"].operations = Payment.operations \o Added(r.c.links)
               /\ r.c.payments["p3"] = payments["p3"]

\* a payment that already carries links gets two more in one walk, and a
\* payment with two links of another origin gets one more
C28_Witness ==
    /\ Len(Payment.operations) >= 1
    /\ Len(payments["p3"].operations) >= 2
    /\ ApplyLink("p3", "o1", 1, NoDeliveryFault).raised = "none"
    /\ \E dt \in {"customerorder", "invoiceout"} :
          LET r == Walk(dt, NoDeliveryFault)
          IN  /\ Len(r.c.links) = 2
              /\ Len(r.c.payments["p1"].operations) = Len(Payment.operations) + 2

\* ---------------------------------------------------------------- retries
\* the remote system fails fewer times in a row than a call may be attempted
\* (a failed read of a webhook by id counts as one failure), and the local
\* store does not fail
Transient(f) ==
    /\ f.db = "none"
    /\ f.list < Attempts /\ f.update < Attempts
    /\ f.create \in {<<"ok", "ok", "ok">>, <<"error", "ok", "ok">>}

\* the webhook the local record of the category points to exists remotely, or
\* there is no such pointer
PointerLive(payment_type) ==
    LET e == get_by_payment_type(db, payment_type)
    IN  (~IsNone(e) /\ e.ms_webhook_id # 0) =>
            /\ e.ms_webhook_id \in 1..MaxWebhooks
            /\ ~IsNone(remote[e.ms_webhook_id])

\* the requests of a delivery, attempts included
Requests(c) == c.nGet + c.nSearch + c.nPut

\* every remote call of a toggle is attempted at most 3 times, transient
\* failures leave the answer of the toggle as it is without them, and a call
\* that fails 3 times makes the toggle raise
ToggleRetries(with_get) ==
    \A pt \in PaymentTypesIn, en \in BOOLEAN, st \in LinkSettingsIn, f \in Faults :
        LET res == Call(pt, en, st, f)
            ok  == Call(pt, en, st, NoFault)
        IN  /\ res.c.nGet <= Attempts /\ res.c.nPut <= Attempts /\ res.c.nPost <= Attempts
            /\ res.c.nList <= Attempts * (1 + Attempts)
            /\ (Transient(f) /\ (f.get => with_get /\ PointerLive(pt))) =>
                   /\ res.raised = ok.raised
                   /\ res.db = ok.db
                   /\ res.c.remote = ok.c.remote
            /\ (f.list >= Attempts /\ res.c.nList > 0) => res.raised = "MoySkladAPIError"
            /\ (f.update >= Attempts /\ res.c.nPut > 0) => res.raised = "MoySkladAPIError"
            /\ (f.create = <<"error", "error", "error">> /\ res.c.nPost > 0) =>
                   /\ res.c.nPost = Attempts
                   /\ res.raised = "MoySkladAPIError"

\* the same for the remote calls of the handling of one event
DeliveryRetries ==
    \A href \in PaymentIds, f \in DeliveryFaults :
        LET events == <<Event("paymentin", "CREATE", href, AccountId)>>
            res == Delivery("r1", events, f)
            ok  == Delivery("r1", events, NoDeliveryFault)
            hit == f.kind \in {"error", "not_found"} /\ f.at <= res.c.calls
        IN  /\ Requests(res.c) <= res.c.calls + (Attempts - 1)
            /\ (hit /\ f.n < Attempts /\ payments[href] # NoPayment) =>
                   /\ res.raised = "none" /\ res.status = ok.status
                   /\ res.c.payments = ok.c.payments
                   /\ res.results[1].outcome = ok.results[1].outcome
                   /\ Requests(res.c) = Requests(ok.c) + f.n
            /\ (hit /\ f.n >= Attempts /\ payments[href] # NoPayment) =>
                   /\ Requests(res.c) = res.c.calls + (Attempts - 1)
                   /\ \/ res.raised # "none"
                      \/ res.results[1].outcome \in {"payment_not_found", "document_not_found"}

\* C29: every outbound call to the remote accounting API made during a toggle
\* or during event handling is attempted at most 3 times: it succeeds when an
\* attempt succeeds after transient failures, and when all 3 attempts fail the
\* failure is propagated to the caller of the operation.
C29_RetriedCalls == ToggleRetries(TRUE) /\ DeliveryRetries

\* ------------------------------------------------------- subscriptions
\* further records of the local store, created after the ones it holds: of
\* the account or of another one, enabled or not, of the incoming or of the
\* outgoing category, each with link settings of its own
MaxRows == 2
FurtherSettings ==
    <<[document_type |-> "customerorder", link_type |-> "payment_purpose_mask"],
      [document_type |-> "customerorder", link_type |-> "counterparty"],
      [document_type |-> "invoiceout", link_type |-> "sum_and_counterparty"]>>
FurtherKinds ==
    { [enabled |-> TRUE,  ms_account_id |-> AccountId, payment_type |-> "incoming_payment"],
      [enabled |-> FALSE, ms_account_id |-> AccountId, payment_type |-> "incoming_payment"],
      [enabled |-> TRUE,  ms_account_id |-> "acc2",    payment_type |-> "incoming_payment"],
      [enabled |-> TRUE,  ms_account_id |-> AccountId, payment_type |-> "outgoing_payment"] }
FurtherRow(id, k, kind) ==
    [NoEntity EXCEPT !.id = id, !.ms_webhook_id = MaxWebhooks + k,
                     !.payment_type = kind.payment_type,
                     !.entity_type = PAYMENT_TYPE_TO_ENTITY_TYPE[kind.payment_type],
                     !.action = "CREATE", !.url = CallbackUrl,
                     !.enabled = kind.enabled,
                     !.ms_account_id = kind.ms_account_id,
                     !.document_type = FurtherSettings[k].document_type,
                     !.link_type = FurtherSettings[k].link_type,
                     !.document_priority = "oldest_first"]
Tables ==
    { db \o [k \in DOMAIN kinds |-> FurtherRow(Len(db) + k, k, kinds[k])] :
        kinds \in UNION { [1..n -> FurtherKinds] : n \in 0..MaxRows } }

\* the ids of the records of a table that the claim admits for an event:
\* enabled, of the event's account and entity type, incoming-payment category
Eligible(rows, e) ==
    { i \in 1..Len(rows) : /\ rows[i].enabled
                            /\ rows[i].ms_account_id = e.accountId
                            /\ rows[i].entity_type = e.type
                            /\ rows[i].payment_type = "incoming_payment" }
Highest(ids) == CHOOSE i \in ids : \A j \in ids : j <= i

\* the handling of the event of a one-event delivery under a subscription
Under(subscription, e) ==
    handle_paymentin_create([DeliveryCtx(payments) EXCEPT !.event = 1], e.href,
                            subscription, NoDeliveryFault)

\* C30: for a payment-created event the dispatcher uses the enabled
\* subscription with the highest id among those of the event's account id,
\* entity type and the incoming-payment category; a disabled subscription, or
\* one of another account or category, is never used, even with a higher id,
\* and without an admitted subscription the event is skipped.
C30_HighestEnabledSubscription ==
    \A rows \in Tables, account \in Accounts :
        LET e == Event("paymentin", "CREATE", "p1", account)
            res == receive_moysklad_webhook(rows, payments, "r1", <<e>>, NoDeliveryFault)
            ids == Eligible(rows, e)
        IN  /\ \A i \in 1..Len(rows) : rows[i].id = i
            /\ IF ids = {}
               THEN /\ res.results[1].outcome = "no_subscription"
                    /\ res.c.links = <<>> /\ res.c.nGet = 0
               ELSE /\ get_active_subscription(rows, account, "paymentin") = rows[Highest(ids)]
                    /\ res.c = Under(rows[Highest(ids)], e).c
                    /\ res.results[1].outcome = Under(rows[Highest(ids)], e).message

\* the enabled record of the account is followed by a disabled record and by a
\* record of another account, both with higher ids and other link settings:
\* the event is linked as the first record says, not as the later ones would
C30_Witness ==
    /\ Len(db) = 1 /\ db[1].enabled /\ db[1].ms_account_id = AccountId
    /\ \E rows \in Tables :
          LET e == Event("paymentin", "CREATE", "p1", AccountId)
              res == receive_moysklad_webhook(rows, payments, "r1", <<e>>, NoDeliveryFault)
          IN  /\ Len(rows) = 3
              /\ ~rows[2].enabled /\ rows[2].ms_account_id = AccountId
              /\ rows[3].enabled /\ rows[3].ms_account_id # AccountId
              /\ rows[3].payment_type = "incoming_payment"
              /\ res.c.links # <<>>
              /\ res.c.links = Under(rows[1], e).c.links
              /\ res.c.links # Under(rows[2], e).c.links
              /\ res.c.links # Under(rows[3], e).c.links

\* ------------------------------------------------------------------ repeat
\* the local flush or commit of the call failed after its remote write was applied
WriteThenDbFailure(res) ==
    /\ ~res.c.overflow
    /\ res.c.nPostOk + res.c.nPutOk >= 1
    /\ res.raised \in {"RepositoryError", "Exception"}

\* C31: when a toggle fails after its remote write succeeded but before the
\* local commit, the same toggle repeated with no further failure succeeds and
\* leaves the enabled flag of the local record equal to the enabled state of
\* the remote webhook and to the requested state.
C31_RepeatAfterLostCommit ==
    \A pt \in PaymentTypesIn, en \in BOOLEAN, st \in LinkSettingsIn, d \in {"upsert", "commit"} :
        LET first == Call(pt, en, st, [NoFault EXCEPT !.db = d])
        IN  (Configured /\ WriteThenDbFailure(first)) =>
                LET second == Then(first, pt, en, st, NoFault)
                    row    == get_by_payment_type(second.db, pt)
                IN  /\ first.db = db
                    /\ Succeeded(second)
                    /\ auto_link_toggle(second).status = "ok"
                    /\ NoRemoteWrite(second)
                    /\ second.c.remote = first.c.remote
                    /\ ~IsNone(row)
                    /\ row.id = second.db_record_id
                    /\ row.ms_webhook_id \in 1..MaxWebhooks
                    /\ row.enabled = en
                    /\ second.c.remote[row.ms_webhook_id].enabled = en
                    /\ second.c.remote[row.ms_webhook_id].entityType
                           = PAYMENT_TYPE_TO_ENTITY_TYPE[pt]

\* a create whose record was never committed is repeated and adopts the
\* webhook it created, and a disable whose commit was lost is repeated on a
\* record that still says enabled
C31_Witness ==
    /\ Configured
    /\ \E pt \in PaymentTypesIn, st \in LinkSettingsIn :
          LET first == Call(pt, TRUE, st, [NoFault EXCEPT !.db = "commit"])
          IN  /\ WriteThenDbFailure(first) /\ first.c.nPostOk = 1
              /\ IsNone(get_by_payment_type(db, pt))
              /\ Then(first, pt, TRUE, st, NoFault).operation = "already_enabled"
    /\ \E pt \in PaymentTypesIn, st \in LinkSettingsIn :
          LET first == Call(pt, FALSE, st, [NoFault EXCEPT !.db = "upsert"])
          IN  /\ WriteThenDbFailure(first) /\ first.c.nPutOk = 1
              /\ get_by_payment_type(db, pt).enabled
              /\ Then(first, pt, FALSE, st, NoFault).operation = "already_disabled"
              /\ ~get_by_payment_type(Then(first, pt, FALSE, st, NoFault).db, pt).enabled

\* ---------------------------------------------------------------- priority
\* the candidates of the counterparty policy for the payment under a priority
CandidatesBy(document_type, prioritize_oldest) ==
    get_documents_by_counterparty(DeliveryCtx(payments), Payment, document_type,
                                  prioritize_oldest, NoDeliveryFault).entities

\* the link writes of the walk over them
LinksBy(document_type, prioritize_oldest) ==
    link_payment_by_counterparty(DeliveryCtx(payments), Payment, document_type,
                                 prioritize_oldest, NoDeliveryFault).c.links

\* the candidates are in the date order of the priority, and the link writes
\* follow the candidates
InPriorityOrder(document_type, prioritize_oldest) ==
    LET documents == CandidatesBy(document_type, prioritize_oldest)
        links     == LinksBy(document_type, prioritize_oldest)
    IN  /\ \A i, j \in DOMAIN documents :
               i < j => IF prioritize_oldest
                        THEN documents[i].moment <= documents[j].moment
                        ELSE documents[i].moment >= documents[j].moment
        /\ \A a, b \in DOMAIN links :
               a < b => Position(documents, links[a].href) < Position(documents, links[b].href)

\* C32: under the counterparty policy the candidates are ordered by document
\* date ascending when the priority is oldest-first and descending when it is
\* newest-first, for each document kind (order, invoice, shipment), and the
\* link writes follow that order.
C32_PriorityOrder ==
    \A dt \in DocumentType, oldest \in BOOLEAN : InPriorityOrder(dt, oldest)

\* --------------------------------------------------------------- tolerance
\* C33: the allocation walk treats a remainder smaller than the 0.01
\* tolerance as fully consumed: once the remaining amount of the payment is
\* below 0.01 it stops, and it never issues a link write for an amount below
\* 0.01.
C33_ToleranceStops ==
    \A dt \in DocumentType :
        LET links == Walk(dt, NoDeliveryFault).c.links
        IN  \A j \in DOMAIN links :
                /\ Remaining(links, j) >= WalkTolerance
                /\ links[j].linkedSum >= WalkTolerance

\* ------------------------------------------------------------ concurrency
\* no request is being served
Quiet == \A q \in Requesters : running[q].pc = "idle"

\* C34: when an enable and a disable toggle for the same payment category run
\* concurrently, then once both have completed the enabled flag of the local
\* record equals the enabled state of the remote webhook.
C34_ConcurrentTogglesAgree ==
    Quiet =>
        LET row == get_by_payment_type(db, RacePaymentType)
        IN  (~IsNone(row) /\ ~IsNone(remote[row.ms_webhook_id])) =>
                row.enabled = remote[row.ms_webhook_id].enabled

\* how many times the link is on the payment
Occurrences(operations, link) ==
    Cardinality({ i \in DOMAIN operations : operations[i] = link })

\* the link a request asked for
Asked(q) == Link(running[q].href, running[q].linked_sum)

\* C35: when two apply_link calls on the same payment run concurrently, both
\* appended links are present on the payment after both calls complete:
\* neither read-modify-write overwrites the link written by the other.
C35_ConcurrentLinksKept ==
    (\A q \in Requesters : running[q].pc = "linked") =>
        \A q \in Requesters :
            Occurrences(payments["p1"].operations, Asked(q))
                >= Cardinality({ o \in Requesters : Asked(o) = Asked(q) })

\* ------------------------------------------------------------- over-linking
\* the sum of the amounts linked on a payment
LinkedTotal(payment) == SumLinks(payment.operations)

\* C36: for every payment, after any sequence of deliveries, including a
\* repeated delivery of the same payment-created event, the sum of the amounts
\* linked on the payment never exceeds the payment's amount.
C36_LinkedWithinPayment ==
    \A id \in PaymentIds :
        payments[id] # NoPayment => LinkedTotal(payments[id]) <= payments[id].sum

\* ------------------------------------------------------------ failed write
\* a request of a link write (the read of the payment or the PUT) fails on
\* every attempt; requests 1 and 2 of the event are the fetch of the payment
\* and the search, write k takes requests 2k + 1 and 2k + 2
LinkFaults == { f \in DeliveryFaults : f.at >= 3 /\ f.n >= Attempts }
WriteOf(f) == (f.at - 1) \div 2

\* C37: under the counterparty policy, when the link write for the k-th
\* document of the walk fails, the links already written for the first k-1
\* documents remain on the payment (no rollback) and no link write is issued
\* for the documents after the k-th.
C37_FailedWriteKeepsEarlier ==
    CounterpartyPolicy =>
        LET ok == Handled(NoDeliveryFault)
        IN  \A f \in LinkFaults :
                LET res   == Handled(f)
                    k     == WriteOf(f)
                    first == SubSeq(ok.c.links, 1, k - 1)
                IN  k <= Len(ok.c.links) =>
                        /\ res.c.links = first
                        /\ res.c.payments["p1"].operations
                               = Payment.operations \o Added(first)
                        /\ res.c.payments["p3"] = payments["p3"]
                        /\ res.c.calls = f.at
                        /\ res.results = <<>> \/ res.results[1].outcome # "linked"

\* a walk that writes two links without failure: with the second write
\* failing the first link stays, with the first failing nothing is written
C37_Witness ==
    /\ CounterpartyPolicy
    /\ Len(Handled(NoDeliveryFault).c.links) = 2
    /\ \E f \in LinkFaults :
          /\ WriteOf(f) = 2
          /\ Len(Handled(f).c.links) = 1
          /\ Len(Handled(f).c.payments["p1"].operations) = Len(Payment.operations) + 1
    /\ \E f \in LinkFaults :
          /\ WriteOf(f) = 1
          /\ Handled(f).c.links = <<>>
          /\ Handled(f).c.payments = payments

\* -------------------------------------------------------- same counterparty
\* every document type with every link policy
Policies == [document_type : DocumentType, link_type : LinkType]

\* an enabled subscription of the account with the given settings
Subscribed(settings) ==
    [NoEntity EXCEPT !.id = 1, !.payment_type = "incoming_payment",
                     !.entity_type = "paymentin", !.action = WEBHOOK_ACTION,
                     !.url = CallbackUrl, !.ms_webhook_id = 1, !.enabled = TRUE,
                     !.ms_account_id = AccountId,
                     !.document_type = settings.document_type,
                     !.link_type = settings.link_type,
                     !.document_priority = "oldest_first"]

\* the link writes the handler issues for the event of the payment under them
LinksUnder(settings) ==
    handle_paymentin_create(DeliveryCtx(payments), "p1", Subscribed(settings),
                            NoDeliveryFault).c.links

\* C38: every link write issued by the dispatcher targets a document whose
\* counterparty is the counterparty of the payment being linked, for every
\* link policy and every document type.
C38_SameCounterparty ==
    \A st \in Policies :
        LET links == LinksUnder(st)
        IN  \A j \in DOMAIN links :
                /\ links[j].payment_id = Payment.id
                /\ \E d \in Documents : /\ d.id = links[j].href
                                         /\ d.kind = st.document_type
                                         /\ d.agent_id = Payment.agent_id

\* two counterparties have an order of the same number: the payment of the
\* second, naming that number, is linked to the second's order
C38_Witness ==
    /\ Payment.agent_id = "a2"
    /\ \E d \in Documents : d.id = "o1" /\ d.name = "12345" /\ d.agent_id = "a1"
    /\ LET links == LinksUnder([document_type |-> "customerorder",
                                link_type |-> "payment_purpose_mask"])
       IN  Len(links) = 1 /\ links[1].href = "o3"
    /\ Len(LinksUnder([document_type |-> "customerorder",
                       link_type |-> "counterparty"])) >= 1

\* ------------------------------------------------- one record per category
\* the records of the table of the payment category
RecordsOf(rows, payment_type) ==
    { i \in 1..Len(rows) : rows[i].payment_type = payment_type }

MaskOf(document_type) ==
    Subscribed([document_type |-> document_type, link_type |-> "payment_purpose_mask"])

\* the event of the payment handled under it
HandledByMask(document_type, f) ==
    handle_paymentin_create(DeliveryCtx(payments), "p1", MaskOf(document_type), f)

\* C40: with the purpose_mask policy and a target document type of invoice or
\* shipment, the dispatcher resolves no candidate and issues no link write,
\* for any payment and any purpose text.
C40_MaskOnlyForOrders ==
    \A dt \in {"invoiceout", "demand"} :
        /\ LET d == find_document_for_payment(DeliveryCtx(payments), Payment, dt,
                                              "payment_purpose_mask", NoDeliveryFault)
           IN  d.raised = "none" /\ NoneDoc(d.document) /\ d.c = DeliveryCtx(payments)
        /\ \A f \in MatchFaults :
              LET h == HandledByMask(dt, f)
              IN  /\ h.raised = "none" /\ ~h.success /\ h.message = "no_document"
                  /\ h.c.links = <<>>
                  /\ h.c.payments = payments
                  /\ h.c.calls = 1

\* the purpose names an order of the payer, which the same policy links when
\* orders are the target, and the payer has invoices and shipments
C40_Witness ==
    /\ Payment.sum > 0
    /\ extract_order_number(Payment.payment_purpose) # ""
    /\ Len(HandledByMask("customerorder", NoDeliveryFault).c.links) = 1
    /\ \A dt \in {"invoiceout", "demand"} :
          /\ \E d \in Documents : d.kind = dt /\ d.agent_id = Payment.agent_id
          /\ HandledByMask(dt, NoDeliveryFault).message = "no_document"

====
